---- MODULE Spec2Model ----
(***************************************************************************)
(* Transport / scheduling state machine and tuning tables of PianoRollCore *)
(* (sveltekit-pianoroll/src/lib/core/PianoRollCore.ts).                    *)
(*                                                                         *)
(* Time is counted in units of 100 ms (the cadence of the position timer), *)
(* so a value of 10 is one second.  A frequency is kept exactly, as the    *)
(* record [num, den, semis] standing for                                   *)
(*     Tone.Frequency('C4') * (num / den) * 2^(semis / 12).                *)
(***************************************************************************)
EXTENDS Integers, Sequences, FiniteSets, TLC

\* ------------------------------------------------------------------ bounds
\* The clock stops advancing at MaxClock.
MaxClock == 2
\* Callbacks the scheduler may have taken off its timeline but not yet invoked.
MaxInFlight == 1
\* Entries the two subscriber arrays may hold together.
MaxSubscribers == 3

\* --------------------------------------------------------- small arithmetic
RECURSIVE Pow2(_)
Pow2(k) == IF k <= 0 THEN 1 ELSE 2 * Pow2(k - 1)

RECURSIVE Gcd(_, _)
Gcd(a, b) == IF b = 0 THEN a ELSE Gcd(b, a % b)

Min(a, b) == IF a < b THEN a ELSE b

Max(a, b) == IF a > b THEN a ELSE b

\* base * (n / d) * 2^(s / 12), with n / d in lowest terms
Freq(n, d, s) == [num |-> n \div Gcd(n, d), den |-> d \div Gcd(n, d), semis |-> s]

\* ------------------------------------------------------------ tuning tables
TuningSystems == {"equal", "natural", "pythagorean", "pentatonic"}

PitchClasses == <<"C", "C#", "D", "D#", "E", "F", "F#", "G", "G#", "A", "A#", "B">>

PitchClassSet == {PitchClasses[i] : i \in 1..12}

Semitone(pc) == (CHOOSE i \in 1..12 : PitchClasses[i] = pc) - 1

Octaves == 0..8

\* A note name such as "C#4" is the pair <<"C#", 4>>.
NoteId(pc, octave) == <<pc, octave>>

naturalRatios ==
    [pc \in PitchClassSet |->
        CASE pc = "C" -> <<1, 1>>   [] pc = "C#" -> <<16, 15>>
          [] pc = "D" -> <<9, 8>>   [] pc = "D#" -> <<6, 5>>
          [] pc = "E" -> <<5, 4>>   [] pc = "F" -> <<4, 3>>
          [] pc = "F#" -> <<45, 32>> [] pc = "G" -> <<3, 2>>
          [] pc = "G#" -> <<8, 5>>  [] pc = "A" -> <<5, 3>>
          [] pc = "A#" -> <<9, 5>>  [] pc = "B" -> <<15, 8>>]

pythagoreanRatios ==
    [pc \in PitchClassSet |->
        CASE pc = "C" -> <<1, 1>>     [] pc = "C#" -> <<256, 243>>
          [] pc = "D" -> <<9, 8>>     [] pc = "D#" -> <<32, 27>>
          [] pc = "E" -> <<81, 64>>   [] pc = "F" -> <<4, 3>>
          [] pc = "F#" -> <<729, 512>> [] pc = "G" -> <<3, 2>>
          [] pc = "G#" -> <<128, 81>> [] pc = "A" -> <<27, 16>>
          [] pc = "A#" -> <<16, 9>>   [] pc = "B" -> <<243, 128>>]

pentatonicRatios ==
    [pc \in {"C", "D", "E", "G", "A"} |->
        CASE pc = "C" -> <<1, 1>> [] pc = "D" -> <<9, 8>> [] pc = "E" -> <<5, 4>>
          [] pc = "G" -> <<3, 2>> [] pc = "A" -> <<5, 3>>]

\* Variant: the octave multiplier is Math.pow(2, octave - 5).
RatioTableFromOctave5(ratios) ==
    [id \in {NoteId(pc, o) : pc \in DOMAIN ratios, o \in Octaves} |->
        Freq(ratios[id[1]][1] * Pow2(id[2]), ratios[id[1]][2] * Pow2(5), 0)]

\* One table: baseFreq * ratio * Math.pow(2, octave - 4) for every listed
\* pitch class and every octave 0..8.
RatioTable(ratios) ==
    [id \in {NoteId(pc, o) : pc \in DOMAIN ratios, o \in Octaves} |->
        Freq(ratios[id[1]][1] * Pow2(id[2]), ratios[id[1]][2] * Pow2(4), 0)]

\* The equal-tempered frequency of a note name: baseFreq transposed by
\* semitone + (octave - 4) * 12.  MIDI note names run from octave -1 to 9.
ToneFrequency(id) == Freq(Pow2(id[2] + 1), Pow2(5), Semitone(id[1]))

EmptyTables == [equal |-> <<>>, natural |-> <<>>, pythagorean |-> <<>>, pentatonic |-> <<>>]

\* _initTuningTables: nothing is populated when Tone.js is not loaded.  The
\* tables are built once by the constructor and never written again, so
\* this.tuningTables is _initTuningTables(tone) in every state.
_initTuningTables(toneLoaded) ==
    IF ~toneLoaded THEN EmptyTables
    ELSE [equal       |-> [id \in {NoteId(pc, o) : pc \in PitchClassSet, o \in Octaves} |->
                              ToneFrequency(id)],
          natural     |-> RatioTable(naturalRatios),
          pythagorean |-> RatioTable(pythagoreanRatios),
          pentatonic  |-> RatioTable(pentatonicRatios)]

\* 440 Hz is A4 of the equal table: base * 2^(9/12).
A440 == Freq(1, 1, Semitone("A"))

\* Tone.Frequency(noteName) throws for a name that is no note.
IsNoteName(id) == id[1] \in PitchClassSet

\* Variant: the table of the system is the only source; a name it lacks
\* gets undefined, which is no positive number.
getNoteFrequencyTableOnly(tables, tuningSystem, toneLoaded, noteName) ==
    IF noteName \in DOMAIN tables[tuningSystem] THEN tables[tuningSystem][noteName]
    ELSE [num |-> 0, den |-> 1, semis |-> 0]

\* Variant: the equal table is looked up before the table of the system.
getNoteFrequencyEqualFirst(tables, tuningSystem, toneLoaded, noteName) ==
    IF noteName \in DOMAIN tables.equal THEN tables.equal[noteName]
    ELSE IF noteName \in DOMAIN tables[tuningSystem] THEN tables[tuningSystem][noteName]
    ELSE IF toneLoaded /\ IsNoteName(noteName) THEN ToneFrequency(noteName)
    ELSE A440

\* getNoteFrequency: the table of the current system, then the equal table,
\* then Tone.Frequency, then 440 Hz.
getNoteFrequency(tables, tuningSystem, toneLoaded, noteName) ==
    IF noteName \in DOMAIN tables[tuningSystem] THEN tables[tuningSystem][noteName]
    ELSE IF noteName \in DOMAIN tables.equal THEN tables.equal[noteName]
    ELSE IF toneLoaded /\ IsNoteName(noteName) THEN ToneFrequency(noteName)
    ELSE A440

\* ------------------------------------------------------------ MIDI sources
\* What the decoder returns for the files a user may load: midi.duration and
\* midi.tracks[].notes[] with name, time, duration and velocity.
RawNote(pc, octave, time, dur) ==
    [name |-> NoteId(pc, octave), time |-> time, duration |-> dur, velocity |-> 1]

MidiSources ==
    { [duration |-> 2,
       tracks |-> << <<RawNote("C", 4, 0, 1)>>, <<RawNote("F", 4, 1, 1)>> >>],
      [duration |-> 1,
       tracks |-> << <<RawNote("E", 4, 0, 1)>> >>] }

\* ------------------------------------------------------- position strings
\* A Tone.js time string.  "b:q:s" (bars:beats:sixteenths) is
\* [kind |-> "bbs", a |-> b, b |-> q, c |-> s]; a plain number of seconds
\* written in tenths is [kind |-> "sec", a |-> tenths]; anything Tone.Time
\* cannot parse is kind "bad".
BBS(bars, beats, sixteenths) == [kind |-> "bbs", a |-> bars, b |-> beats, c |-> sixteenths]

Seconds(tenths) == [kind |-> "sec", a |-> tenths, b |-> 0, c |-> 0]

BadPosition == [kind |-> "bad", a |-> 0, b |-> 0, c |-> 0]

Undefined == [kind |-> "undefined", a |-> 0, b |-> 0, c |-> 0]

\* Tone.Time(position).toSeconds() at the transport's tempo, in units of
\* 100 ms: a quarter note lasts 60 / bpm seconds, a bar four quarters.
ParsesAsTime(position) == position.kind \in {"bbs", "sec"}

ToSeconds(position, bpm) ==
    IF position.kind = "sec" THEN position.a
    ELSE ((position.a * 16 + position.b * 4 + position.c) * 150) \div bpm

\* ------------------------------------------------------------------- state
VARIABLES
    tone,                   \* window.Tone (and Tonal) is loaded
    options,                \* this.options
    synth,                  \* this.synth: "null" or the type of the instance
    notes,                  \* this.notes
    duration,               \* this.duration
    isPlaying,              \* this.isPlaying
    isPaused,               \* this.isPaused
    scheduledEvents,        \* this.scheduledEvents: ids returned by schedule
    currentPosition,        \* this.currentPosition
    transportState,         \* this.transportState
    positionUpdateInterval, \* this.positionUpdateInterval: 0 is null
    Transport,              \* Tone.Transport: state, tempo and timeline
    inFlight,               \* callbacks taken off the timeline, not yet invoked
    timers,                 \* live setInterval timers with their closures
    clock,                  \* Tone.now() and Date.now(), in units of 100 ms
    noteSubscribers,        \* this.noteSubscribers: callbacks, in order of push
    transportSubscribers,   \* this.transportSubscribers
    emitted,                \* events handed to the two channels by the last step
    log,                    \* what the last step did to its collaborators, in
                            \* order: callbacks invoked, errors logged, the
                            \* synthesizer released
    synthCalls,             \* synthesizer calls made by the last step
    last,                   \* the last step: the operation, its argument, and the
                            \* status, position and number of handles it began with
    delivered,              \* <<type, note index>> of the note events delivered
                            \* since the notes were last scheduled
    lastWrap,               \* the clock at which a tick last put the position back
                            \* to 0 at the end of a looping file, -1 when there
                            \* was none or the user has acted since
    held                    \* the object a caller holds from its last getState():
                            \* ref tells which object it is, "none" before any
                            \* call, "copy" for an object of its own, "state" for
                            \* this.transportState itself; value is the content
                            \* of an object of its own

vars == <<tone, options, synth, notes, duration, isPlaying, isPaused,
          scheduledEvents, currentPosition, transportState, positionUpdateInterval,
          Transport, inFlight, timers, clock, noteSubscribers, transportSubscribers,
          emitted, log, synthCalls, last, delivered, lastWrap, held>>

\* The machine and its collaborators as one record, so that an operation
\* that calls another (setPosition -> stop -> play) composes.
Machine ==
    [tone |-> tone, options |-> options, synth |-> synth,
     notes |-> notes, duration |-> duration, isPlaying |-> isPlaying,
     isPaused |-> isPaused, scheduledEvents |-> scheduledEvents,
     currentPosition |-> currentPosition, transportState |-> transportState,
     positionUpdateInterval |-> positionUpdateInterval, Transport |-> Transport,
     inFlight |-> inFlight, timers |-> timers, clock |-> clock,
     noteSubscribers |-> noteSubscribers,
     transportSubscribers |-> transportSubscribers,
     emitted |-> <<>>, log |-> <<>>, synthCalls |-> <<>>, delivered |-> delivered,
     lastWrap |-> lastWrap, held |-> held]

Status(playing, paused) ==
    IF playing /\ paused THEN "both"
    ELSE IF playing THEN "playing"
    ELSE IF paused THEN "paused"
    ELSE "stopped"

\* _initSynth: no synthesizer without Tone.js.
_initSynth(toneLoaded, synthType) == IF toneLoaded THEN synthType ELSE "null"

\* ------------------------------------------------------------- event bus
\* The callbacks the page may register.  Every subscribe call of the page
\* passes a closure of its own, so a callback is in one array, once; it is
\* known by that array and by what it does: a faulty one throws whenever it
\* is invoked, a sound one returns.
Callbacks == {"faulty", "sound"}

Throws(callback) == callback = "faulty"

\* A callback may also call, from inside a notification, the function its
\* subscription returned: a leaver does so whenever it is invoked.
Leaves(callback) == callback = "leaver"

\* array.splice(array.indexOf(callback), 1) when the callback is in the array
RECURSIVE RemoveFirst(_, _)
RemoveFirst(callbacks, callback) ==
    IF callbacks = <<>> THEN <<>>
    ELSE IF Head(callbacks) = callback THEN Tail(callbacks)
    ELSE <<Head(callbacks)>> \o RemoveFirst(Tail(callbacks), callback)

\* The array of a channel
Subscribers(m, registry) ==
    IF registry = "note" THEN m.noteSubscribers ELSE m.transportSubscribers

\* The function returned to a callback of the channel, called by the callback
removeSelf(m, registry, callback) ==
    IF registry = "note"
    THEN [m EXCEPT !.noteSubscribers = RemoveFirst(@, callback)]
    ELSE [m EXCEPT !.transportSubscribers = RemoveFirst(@, callback)]

\* Variant: no try / catch, the first callback that throws ends the forEach.
RECURSIVE forEachUntilThrow(_, _, _, _)
forEachUntilThrow(m, registry, callbacks, event) ==
    IF callbacks = <<>> THEN m
    ELSE LET callback == Head(callbacks)
             m1 == [m EXCEPT !.log = Append(@, [what |-> "call", registry |-> registry,
                                                callback |-> callback, event |-> event])]
         IN  IF Throws(callback) THEN m1
             ELSE forEachUntilThrow(m1, registry, Tail(callbacks), event)

\* subscribers.forEach(callback => { try { callback(event) } catch { console.error } })
\* registry names the array, callbacks is what forEach has yet to visit.
\* forEach goes through the array itself by index: when a callback takes
\* an element out, those behind it move down one place and forEach goes on
\* at the next index.
RECURSIVE forEachSubscriber(_, _, _, _)
forEachSubscriber(m, registry, callbacks, event) ==
    IF callbacks = <<>> THEN m
    ELSE LET callback == Head(callbacks)
             index == Len(Subscribers(m, registry)) - Len(callbacks) + 1
             m1 == [m EXCEPT !.log = Append(@, [what |-> "call", registry |-> registry,
                                                callback |-> callback, event |-> event])]
             m2 == IF Throws(callback)
                   THEN [m1 EXCEPT !.log = Append(@, [what |-> "error",
                                                      registry |-> registry,
                                                      callback |-> callback,
                                                      event |-> event])]
                   ELSE m1
             m3 == IF Leaves(callback) THEN removeSelf(m2, registry, callback) ELSE m2
             array == Subscribers(m3, registry)
         IN  forEachSubscriber(m3, registry, SubSeq(array, index + 1, Len(array)), event)

\* _notifySubscribers / _notifyTransportSubscribers hand the event to every
\* subscriber of the channel; the model records the event.
_notifySubscribers(m, event) ==
    LET ev == [chan |-> "note"] @@ event
    IN  forEachSubscriber([m EXCEPT !.emitted = Append(@, ev)],
                          "note", m.noteSubscribers, ev)

\* Variant: one array serves both channels.
notifyTransportThroughNoteArray(m, event) ==
    LET ev == [chan |-> "transport"] @@ event
    IN  forEachSubscriber([m EXCEPT !.emitted = Append(@, ev)],
                          "note", m.noteSubscribers, ev)

_notifyTransportSubscribers(m, event) ==
    LET ev == [chan |-> "transport"] @@ event
    IN  forEachSubscriber([m EXCEPT !.emitted = Append(@, ev)],
                          "transport", m.transportSubscribers, ev)

\* subscribe(callback)
subscribe(m, callback) == [m EXCEPT !.noteSubscribers = Append(@, callback)]

\* the function subscribe(callback) returned
unsubscribe(m, callback) == [m EXCEPT !.noteSubscribers = RemoveFirst(@, callback)]

\* subscribeToTransport(callback)
subscribeToTransport(m, callback) == [m EXCEPT !.transportSubscribers = Append(@, callback)]

\* the function subscribeToTransport(callback) returned
unsubscribeFromTransport(m, callback) ==
    [m EXCEPT !.transportSubscribers = RemoveFirst(@, callback)]

\* ------------------------------------------------------- position tracking
\* setInterval returns an id that no live timer has.
NewTimerId(m) == CHOOSE i \in 1..(Cardinality(m.timers) + 1) : \A t \in m.timers : t.id # i

clearInterval(m, id) == [m EXCEPT !.timers = {t \in @ : t.id # id}]

_startPositionTracking(m) ==
    LET m1 == IF m.positionUpdateInterval # 0
              THEN clearInterval(m, m.positionUpdateInterval)
              ELSE m
        id == NewTimerId(m1)
    IN  [m1 EXCEPT !.timers = @ \cup {[id |-> id, startTime |-> m.clock,
                                       startPosition |-> m.currentPosition]},
                   !.positionUpdateInterval = id]

\* Variant: the field is reset but the timer is never cleared.
stopTrackingKeepsTimer(m) == [m EXCEPT !.positionUpdateInterval = 0]

_stopPositionTracking(m) ==
    IF m.positionUpdateInterval # 0
    THEN [clearInterval(m, m.positionUpdateInterval) EXCEPT !.positionUpdateInterval = 0]
    ELSE m

\* ------------------------------------------------------ external scheduler
\* Tone.Transport.schedule returns an id no scheduled callback has.
UsedEventIds(m) ==
    {e.id : e \in m.Transport.timeline \cup m.inFlight}
        \cup {m.scheduledEvents[i] : i \in DOMAIN m.scheduledEvents}

NewEventId(m) == CHOOSE i \in 1..(Cardinality(UsedEventIds(m)) + 1) : i \notin UsedEventIds(m)

\* Tone.Transport.schedule(callback, time): the callback is described by the
\* values its closure captured.
TransportSchedule(m, callback, time) ==
    [m EXCEPT !.Transport.timeline =
                  @ \cup {[id |-> NewEventId(m), time |-> time] @@ callback}]

TransportClear(m, id) ==
    [m EXCEPT !.Transport.timeline = {e \in @ : e.id # id}]

\* Tone.Transport.stop() followed by Tone.Transport.cancel()
TransportStopCancel(m) ==
    [m EXCEPT !.Transport.state = "stopped", !.Transport.timeline = {}]

RECURSIVE ClearEach(_, _)
ClearEach(m, ids) ==
    IF ids = <<>> THEN m ELSE ClearEach(TransportClear(m, Head(ids)), Tail(ids))

\* Variant: the filter is note.time > startTime.
RECURSIVE FilterAfter(_, _, _)
FilterAfter(ns, i, startTime) ==
    IF i > Len(ns) THEN <<>>
    ELSE IF ns[i].time > startTime THEN <<i>> \o FilterAfter(ns, i + 1, startTime)
    ELSE FilterAfter(ns, i + 1, startTime)

\* The indices, in order, of this.notes.filter(note => note.time >= startTime)
RECURSIVE FilterFrom(_, _, _)
FilterFrom(ns, i, startTime) ==
    IF i > Len(ns) THEN <<>>
    ELSE IF ns[i].time >= startTime THEN <<i>> \o FilterFrom(ns, i + 1, startTime)
    ELSE FilterFrom(ns, i + 1, startTime)

\* One pass of the forEach of play(): a note-on at now + (time - startTime),
\* a note-off at that plus the note's duration, both ids pushed.
ScheduleNote(m, n, now, startTime) ==
    LET note == m.notes[n]
        noteStartTime == now + (note.time - startTime)
        captured == [n |-> n, note |-> note.name, frequency |-> note.frequency,
                     duration |-> note.duration, velocity |-> note.velocity]
        noteOnEvent == NewEventId(m)
        m1 == TransportSchedule(m, [type |-> "noteOn"] @@ captured, noteStartTime)
        noteOffEvent == NewEventId(m1)
        m2 == TransportSchedule(m1, [type |-> "noteOff"] @@ captured,
                                noteStartTime + note.duration)
    IN  [m2 EXCEPT !.scheduledEvents = @ \o <<noteOnEvent, noteOffEvent>>]

RECURSIVE ScheduleNotes(_, _, _, _)
ScheduleNotes(m, filteredNotes, now, startTime) ==
    IF filteredNotes = <<>> THEN m
    ELSE ScheduleNotes(ScheduleNote(m, Head(filteredNotes), now, startTime),
                       Tail(filteredNotes), now, startTime)

\* --------------------------------------------------------------- transport
\* Variant: the array of handles is emptied without cancelling anything on
\* the scheduler.
stopLeavesTimeline(m) ==
    LET m3 == [m EXCEPT !.Transport.state = "stopped",
                        !.scheduledEvents = <<>>,
                        !.delivered = {},
                        !.isPlaying = FALSE,
                        !.isPaused = FALSE,
                        !.transportState.isPlaying = FALSE,
                        !.transportState.isPaused = FALSE,
                        !.currentPosition = 0,
                        !.transportState.positionSeconds = 0,
                        !.transportState.position = BBS(0, 0, 0)]
        m5 == _notifyTransportSubscribers(_stopPositionTracking(m3),
                                          [type |-> "stop", position |-> 0])
    IN  _notifySubscribers(m5, [type |-> "stop"])

\* Variant: the position is left where it was.
stopKeepsPosition(m) ==
    LET m2 == IF m.tone THEN ClearEach(TransportStopCancel(m), m.scheduledEvents) ELSE m
        m3 == [m2 EXCEPT !.scheduledEvents = <<>>,
                         !.delivered = {},
                         !.isPlaying = FALSE,
                         !.isPaused = FALSE,
                         !.transportState.isPlaying = FALSE,
                         !.transportState.isPaused = FALSE]
        m5 == _notifyTransportSubscribers(_stopPositionTracking(m3),
                                          [type |-> "stop", position |-> 0])
    IN  _notifySubscribers(m5, [type |-> "stop"])

\* Variant: only the transport channel hears of the stop.
stopWithoutNoteEvent(m) ==
    LET m2 == IF m.tone THEN ClearEach(TransportStopCancel(m), m.scheduledEvents) ELSE m
        m3 == [m2 EXCEPT !.scheduledEvents = <<>>,
                         !.delivered = {},
                         !.isPlaying = FALSE,
                         !.isPaused = FALSE,
                         !.transportState.isPlaying = FALSE,
                         !.transportState.isPaused = FALSE,
                         !.currentPosition = 0,
                         !.transportState.positionSeconds = 0,
                         !.transportState.position = BBS(0, 0, 0)]
    IN  _notifyTransportSubscribers(_stopPositionTracking(m3),
                                    [type |-> "stop", position |-> 0])

\* Variant: the callbacks are cancelled and the array of handles is kept.
stopKeepsHandles(m) ==
    LET m1 == IF m.tone THEN TransportStopCancel(m) ELSE m
        m2 == IF m.tone THEN ClearEach(m1, m1.scheduledEvents) ELSE m1
        m3 == [m2 EXCEPT !.delivered = {},
                         !.isPlaying = FALSE,
                         !.isPaused = FALSE,
                         !.transportState.isPlaying = FALSE,
                         !.transportState.isPaused = FALSE,
                         !.currentPosition = 0,
                         !.transportState.positionSeconds = 0,
                         !.transportState.position = BBS(0, 0, 0)]
        m4 == _stopPositionTracking(m3)
        m5 == _notifyTransportSubscribers(m4, [type |-> "stop", position |-> 0])
    IN  _notifySubscribers(m5, [type |-> "stop"])

\* stop()
stop(m) ==
    LET m1 == IF m.tone THEN TransportStopCancel(m) ELSE m
        m2 == IF m.tone THEN ClearEach(m1, m1.scheduledEvents) ELSE m1
        m3 == [m2 EXCEPT !.scheduledEvents = <<>>,
                         !.delivered = {},
                         !.isPlaying = FALSE,
                         !.isPaused = FALSE,
                         !.transportState.isPlaying = FALSE,
                         !.transportState.isPaused = FALSE,
                         !.currentPosition = 0,
                         !.transportState.positionSeconds = 0,
                         !.transportState.position = BBS(0, 0, 0)]
        m4 == _stopPositionTracking(m3)
        m5 == _notifyTransportSubscribers(m4, [type |-> "stop", position |-> 0])
    IN  _notifySubscribers(m5, [type |-> "stop"])

\* Variant: resuming schedules the notes from the current position again.
resumeReschedules(m) ==
    LET m2 == [m EXCEPT !.Transport.state = "started",
                        !.isPlaying = TRUE,
                        !.isPaused = FALSE,
                        !.transportState.isPlaying = TRUE,
                        !.transportState.isPaused = FALSE]
        m3 == _startPositionTracking(m2)
        m4 == ScheduleNotes(m3, FilterFrom(m3.notes, 1, m3.currentPosition),
                            m3.clock, m3.currentPosition)
    IN  _notifyTransportSubscribers(m4, [type |-> "play", position |-> m4.currentPosition])

\* Variant: resuming starts over from the beginning.
resumeFromStart(m) ==
    LET m2 == [m EXCEPT !.Transport.state = "started",
                        !.isPlaying = TRUE,
                        !.isPaused = FALSE,
                        !.transportState.isPlaying = TRUE,
                        !.transportState.isPaused = FALSE,
                        !.currentPosition = 0,
                        !.transportState.positionSeconds = 0]
        m3 == _startPositionTracking(m2)
    IN  _notifyTransportSubscribers(m3, [type |-> "play", position |-> m3.currentPosition])

\* _resumeFromPause()
_resumeFromPause(m) ==
    LET m1 == IF m.tone THEN [m EXCEPT !.Transport.state = "started"] ELSE m
        m2 == [m1 EXCEPT !.isPlaying = TRUE,
                         !.isPaused = FALSE,
                         !.transportState.isPlaying = TRUE,
                         !.transportState.isPaused = FALSE]
        m3 == _startPositionTracking(m2)
    IN  _notifyTransportSubscribers(m3, [type |-> "play", position |-> m3.currentPosition])

\* Variant: no test of isPlaying at the head of play().
playUnguarded(m) ==
    IF ~m.tone THEN m
    ELSE IF m.isPaused THEN _resumeFromPause(m)
    ELSE IF ~m.options.useSynth \/ m.synth = "null" THEN m
    ELSE LET m1 == [m EXCEPT !.isPlaying = TRUE,
                             !.isPaused = FALSE,
                             !.transportState.isPlaying = TRUE,
                             !.transportState.isPaused = FALSE]
             m2 == _startPositionTracking(m1)
             m3 == ScheduleNotes(m2, FilterFrom(m2.notes, 1, m2.currentPosition),
                                 m2.clock, m2.currentPosition)
             m4 == [m3 EXCEPT !.Transport.state = "started"]
         IN  _notifyTransportSubscribers(m4,
                 [type |-> "play", position |-> m4.currentPosition])

\* play()
play(m) ==
    IF ~m.tone THEN m
    ELSE IF m.isPlaying THEN m
    ELSE IF m.isPaused THEN _resumeFromPause(m)
    ELSE IF ~m.options.useSynth \/ m.synth = "null" THEN m
    ELSE LET m1 == [m EXCEPT !.isPlaying = TRUE,
                             !.isPaused = FALSE,
                             !.transportState.isPlaying = TRUE,
                             !.transportState.isPaused = FALSE]
             m2 == _startPositionTracking(m1)
             now == m2.clock
             startTime == m2.currentPosition
             m3 == ScheduleNotes(m2, FilterFrom(m2.notes, 1, startTime), now, startTime)
             m4 == [m3 EXCEPT !.Transport.state = "started"]
         IN  _notifyTransportSubscribers(m4, [type |-> "play", position |-> startTime])

\* Variant: isPlaying is left set.
pauseKeepsPlaying(m) ==
    IF ~m.isPlaying \/ m.isPaused THEN m
    ELSE LET m2 == [m EXCEPT !.Transport.state = "paused",
                             !.isPaused = TRUE,
                             !.transportState.isPaused = TRUE]
             m4 == _notifyTransportSubscribers(_stopPositionTracking(m2),
                       [type |-> "pause", position |-> m2.currentPosition])
         IN  _notifySubscribers(m4, [type |-> "stop"])

\* Variant: pausing cancels what was scheduled.
pauseCancels(m) ==
    IF ~m.isPlaying \/ m.isPaused THEN m
    ELSE LET m1 == ClearEach(TransportStopCancel(m), m.scheduledEvents)
             m2 == [m1 EXCEPT !.Transport.state = "paused",
                              !.scheduledEvents = <<>>,
                              !.isPlaying = FALSE,
                              !.isPaused = TRUE,
                              !.transportState.isPlaying = FALSE,
                              !.transportState.isPaused = TRUE]
             m4 == _notifyTransportSubscribers(_stopPositionTracking(m2),
                       [type |-> "pause", position |-> m2.currentPosition])
         IN  _notifySubscribers(m4, [type |-> "stop"])

\* Variant: no test of the state at the head of pause().
pauseUnguarded(m) ==
    LET m2 == [m EXCEPT !.Transport.state = "paused",
                        !.isPlaying = FALSE,
                        !.isPaused = TRUE,
                        !.transportState.isPlaying = FALSE,
                        !.transportState.isPaused = TRUE]
        m4 == _notifyTransportSubscribers(_stopPositionTracking(m2),
                  [type |-> "pause", position |-> m2.currentPosition])
    IN  _notifySubscribers(m4, [type |-> "stop"])

\* Variant: pause() writes the flags of the machine, not their copies.
pauseWithoutCopies(m) ==
    IF ~m.isPlaying \/ m.isPaused THEN m
    ELSE LET m1 == IF m.tone THEN [m EXCEPT !.Transport.state = "paused"] ELSE m
             m2 == [m1 EXCEPT !.isPlaying = FALSE,
                              !.isPaused = TRUE]
             m3 == _stopPositionTracking(m2)
             m4 == _notifyTransportSubscribers(m3,
                       [type |-> "pause", position |-> m3.currentPosition])
         IN  _notifySubscribers(m4, [type |-> "stop"])

\* pause()
pause(m) ==
    IF ~m.isPlaying \/ m.isPaused THEN m
    ELSE LET m1 == IF m.tone THEN [m EXCEPT !.Transport.state = "paused"] ELSE m
             m2 == [m1 EXCEPT !.isPlaying = FALSE,
                              !.isPaused = TRUE,
                              !.transportState.isPlaying = FALSE,
                              !.transportState.isPaused = TRUE]
             m3 == _stopPositionTracking(m2)
             m4 == _notifyTransportSubscribers(m3,
                       [type |-> "pause", position |-> m3.currentPosition])
         IN  _notifySubscribers(m4, [type |-> "stop"])

\* Variant: the limits themselves are rejected.
setBPMStrict(m, bpm) ==
    IF bpm <= 20 \/ bpm >= 300 THEN m
    ELSE LET m1 == [m EXCEPT !.transportState.bpm = bpm]
             m2 == IF m.tone THEN [m1 EXCEPT !.Transport.bpm = bpm] ELSE m1
         IN  _notifyTransportSubscribers(m2, [type |-> "bpm", bpm |-> bpm])

\* setBPM(bpm)
setBPM(m, bpm) ==
    IF bpm < 20 \/ bpm > 300 THEN m
    ELSE LET m1 == [m EXCEPT !.transportState.bpm = bpm]
             m2 == IF m.tone THEN [m1 EXCEPT !.Transport.bpm = bpm] ELSE m1
         IN  _notifyTransportSubscribers(m2, [type |-> "bpm", bpm |-> bpm])

\* Variant: the position is stored before Tone.Time converts it.
setPositionStoresFirst(m, position) ==
    IF ~m.tone THEN m
    ELSE IF ~ParsesAsTime(position)
         THEN [m EXCEPT !.transportState.position = position]
    ELSE LET positionSeconds == ToSeconds(position, m.Transport.bpm)
             clampedSeconds == Max(0, Min(positionSeconds, m.duration))
             m1 == [m EXCEPT !.currentPosition = clampedSeconds,
                             !.transportState.position = position,
                             !.transportState.positionSeconds = clampedSeconds]
             m2 == IF m1.isPlaying THEN play(stop(m1)) ELSE m1
         IN  _notifyTransportSubscribers(m2,
                 [type |-> "position", position |-> position,
                  positionSeconds |-> clampedSeconds])

\* setPosition(position): the whole body runs only with Tone.js loaded, and
\* a position Tone.Time cannot convert leaves through the catch.
setPosition(m, position) ==
    IF ~m.tone THEN m
    ELSE IF ~ParsesAsTime(position) THEN m
    ELSE LET positionSeconds == ToSeconds(position, m.Transport.bpm)
             clampedSeconds == Max(0, Min(positionSeconds, m.duration))
             m1 == [m EXCEPT !.currentPosition = clampedSeconds,
                             !.transportState.position = position,
                             !.transportState.positionSeconds = clampedSeconds]
             m2 == IF m1.isPlaying THEN play(stop(m1)) ELSE m1
         IN  _notifyTransportSubscribers(m2,
                 [type |-> "position", position |-> position,
                  positionSeconds |-> clampedSeconds])

\* Variant: a playing machine is stopped and started again under the new
\* loop settings.
setLoopRestarts(m, enabled, start, end) ==
    LET m1 == [m EXCEPT !.transportState.isLooping = enabled]
        m2 == IF start # Undefined THEN [m1 EXCEPT !.transportState.loopStart = start]
              ELSE m1
        m3 == IF end # Undefined THEN [m2 EXCEPT !.transportState.loopEnd = end]
              ELSE m2
        m4 == IF m3.tone
              THEN IF enabled
                   THEN [m3 EXCEPT !.Transport.loopStart = m3.transportState.loopStart,
                                   !.Transport.loopEnd = m3.transportState.loopEnd,
                                   !.Transport.loop = TRUE]
                   ELSE [m3 EXCEPT !.Transport.loop = FALSE]
              ELSE m3
        m5 == IF m4.isPlaying THEN play(stop(m4)) ELSE m4
    IN  _notifyTransportSubscribers(m5,
            [type |-> "loop", enabled |-> enabled,
             start |-> m5.transportState.loopStart, end |-> m5.transportState.loopEnd])

\* setLoop(enabled, start?, end?): Undefined stands for an omitted bound.
setLoop(m, enabled, start, end) ==
    LET m1 == [m EXCEPT !.transportState.isLooping = enabled]
        m2 == IF start # Undefined THEN [m1 EXCEPT !.transportState.loopStart = start]
              ELSE m1
        m3 == IF end # Undefined THEN [m2 EXCEPT !.transportState.loopEnd = end]
              ELSE m2
        m4 == IF m3.tone
              THEN IF enabled
                   THEN [m3 EXCEPT !.Transport.loopStart = m3.transportState.loopStart,
                                   !.Transport.loopEnd = m3.transportState.loopEnd,
                                   !.Transport.loop = TRUE]
                   ELSE [m3 EXCEPT !.Transport.loop = FALSE]
              ELSE m3
    IN  _notifyTransportSubscribers(m4,
            [type |-> "loop", enabled |-> enabled,
             start |-> m4.transportState.loopStart, end |-> m4.transportState.loopEnd])

\* Variant: an amount outside [0, 1] is refused and nothing is done, as
\* setSwing of the JS variant does.
setSwingRejects(m, amount, subdivision) ==
    IF amount < 0 \/ amount > 10 THEN m
    ELSE LET m1 == [m EXCEPT !.transportState.swing = amount,
                             !.transportState.swingSubdivision = subdivision]
             m2 == IF m1.tone
                   THEN [m1 EXCEPT !.Transport.swing = amount,
                                   !.Transport.swingSubdivision = subdivision]
                   ELSE m1
         IN  _notifyTransportSubscribers(m2,
                 [type |-> "bpm", swing |-> amount, subdivision |-> subdivision])

\* Variant: the amount is stored as it is given.
setSwingUnclamped(m, amount, subdivision) ==
    LET m1 == [m EXCEPT !.transportState.swing = amount,
                        !.transportState.swingSubdivision = subdivision]
        m2 == IF m1.tone
              THEN [m1 EXCEPT !.Transport.swing = amount,
                              !.Transport.swingSubdivision = subdivision]
              ELSE m1
    IN  _notifyTransportSubscribers(m2,
            [type |-> "bpm", swing |-> amount, subdivision |-> subdivision])

\* setSwing(amount, subdivision): amount in tenths, so [0, 1] is 0..10.
setSwing(m, amount, subdivision) ==
    LET m1 == [m EXCEPT !.transportState.swing = Max(0, Min(10, amount)),
                        !.transportState.swingSubdivision = subdivision]
        m2 == IF m1.tone
              THEN [m1 EXCEPT !.Transport.swing = m1.transportState.swing,
                              !.Transport.swingSubdivision = subdivision]
              ELSE m1
    IN  _notifyTransportSubscribers(m2,
            [type |-> "bpm", swing |-> m2.transportState.swing,
             subdivision |-> subdivision])

\* Variant: the state object itself is returned.
getStateReturnsInternal(m) == [ref |-> "state", value |-> m.transportState]

\* getState(): { ...this.transportState }, a new object with the fields of
\* the state, all of them primitives.
getState(m) == [ref |-> "copy", value |-> m.transportState]

\* What a caller reads in the object it holds
Deref(h, state) == IF h.ref = "state" THEN state ELSE h.value

\* A caller assigns to a field of the object it holds.
writeHeld(m, field, v) ==
    IF m.held.ref = "state" THEN [m EXCEPT !.transportState[field] = v]
    ELSE IF m.held.ref = "copy" THEN [m EXCEPT !.held.value[field] = v]
    ELSE m

\* ------------------------------------------------------------ note library
RECURSIVE FlatMap(_)
FlatMap(tracks) == IF tracks = <<>> THEN <<>> ELSE Head(tracks) \o FlatMap(Tail(tracks))

\* Variant: the load replaces notes and duration and leaves the position.
parseMIDIKeepsPosition(m, midi) ==
    LET tracks == [trackIndex \in DOMAIN midi.tracks |->
                      [k \in DOMAIN midi.tracks[trackIndex] |->
                          LET note == midi.tracks[trackIndex][k]
                          IN  [name |-> note.name, time |-> note.time,
                               duration |-> note.duration, velocity |-> note.velocity,
                               frequency |-> getNoteFrequency(_initTuningTables(m.tone),
                                                 m.options.tuningSystem, m.tone, note.name),
                               trackIndex |-> trackIndex - 1]]]
    IN  [m EXCEPT !.notes = FlatMap(tracks),
                  !.duration = midi.duration]

\* parseMIDI(file), after the decoder has returned midi
parseMIDI(m, midi) ==
    LET tracks == [trackIndex \in DOMAIN midi.tracks |->
                      [k \in DOMAIN midi.tracks[trackIndex] |->
                          LET note == midi.tracks[trackIndex][k]
                          IN  [name |-> note.name, time |-> note.time,
                               duration |-> note.duration, velocity |-> note.velocity,
                               frequency |-> getNoteFrequency(_initTuningTables(m.tone),
                                                 m.options.tuningSystem, m.tone, note.name),
                               trackIndex |-> trackIndex - 1]]]
    IN  [m EXCEPT !.notes = FlatMap(tracks),
                  !.duration = midi.duration,
                  !.transportState.positionSeconds = 0,
                  !.transportState.position = BBS(0, 0, 0),
                  !.currentPosition = 0]

\* Variant: the tuning system is recorded and the notes keep the frequencies
\* they were loaded with.
updateTuningSystemKeepsFrequencies(m, tuningSystem) ==
    _notifySubscribers([m EXCEPT !.options.tuningSystem = tuningSystem],
                       [type |-> "stop"])

\* updateTuningSystem(tuningSystem)
updateTuningSystem(m, tuningSystem) ==
    LET m1 == [m EXCEPT !.options.tuningSystem = tuningSystem]
        m2 == [m1 EXCEPT !.notes =
                  [i \in DOMAIN m1.notes |->
                      [m1.notes[i] EXCEPT !.frequency =
                          getNoteFrequency(_initTuningTables(m1.tone),
                              m1.options.tuningSystem, m1.tone, m1.notes[i].name)]]]
    IN  _notifySubscribers(m2, [type |-> "stop"])

\* updateSynthType(synthType)
updateSynthType(m, synthType) ==
    LET m1 == [m EXCEPT !.options.synthType = synthType]
    IN  IF m1.options.useSynth THEN [m1 EXCEPT !.synth = _initSynth(m1.tone, synthType)]
        ELSE m1

\* handleSynthEnableChange of the page: the only writer of options.useSynth
handleSynthEnableChange(m, useSynth) ==
    LET m1 == [m EXCEPT !.options.useSynth = useSynth]
    IN  IF useSynth THEN updateSynthType(m1, m1.options.synthType) ELSE stop(m1)

\* Variant: the arrays of subscribers are emptied before playback is stopped.
disposeClearsFirst(m) ==
    LET m0 == [m EXCEPT !.noteSubscribers = <<>>, !.transportSubscribers = <<>>]
        m1 == _stopPositionTracking(stop(m0))
        m2 == IF m1.synth # "null"
              THEN [m1 EXCEPT !.log = Append(@, [what |-> "synth.dispose"]),
                              !.synth = "null"]
              ELSE m1
    IN  [m2 EXCEPT !.notes = <<>>]

\* dispose()
dispose(m) ==
    LET m1 == _stopPositionTracking(stop(m))
        m2 == IF m1.synth # "null"
              THEN [m1 EXCEPT !.log = Append(@, [what |-> "synth.dispose"]),
                              !.synth = "null"]
              ELSE m1
    IN  [m2 EXCEPT !.notes = <<>>,
                   !.noteSubscribers = <<>>,
                   !.transportSubscribers = <<>>]

\* ------------------------------------------------------- the position tick
\* bars:beats:sixteenths of a position at a tempo
FormatPosition(position, bpm) ==
    BBS((position * bpm) \div 2400,
        ((position * bpm) \div 600) % 4,
        (((position * bpm) % 600) * 4) \div 600)

\* Variant: the callback never looks whether the end is reached.
tickWithoutEndCheck(m, t) ==
    IF ~m.isPlaying \/ m.isPaused THEN m
    ELSE LET elapsed == m.clock - t.startTime
             m1 == [m EXCEPT !.currentPosition = t.startPosition + elapsed,
                             !.transportState.positionSeconds = t.startPosition + elapsed]
             m2 == IF m1.tone
                   THEN [m1 EXCEPT !.transportState.position =
                            FormatPosition(m1.currentPosition, m1.transportState.bpm)]
                   ELSE m1
         IN  _notifyTransportSubscribers(m2,
                 [type |-> "position", position |-> m2.transportState.position,
                  positionSeconds |-> m2.transportState.positionSeconds])

\* Variant: the end is reached only once the position is past the duration.
tickPastEnd(m, t) ==
    IF ~m.isPlaying \/ m.isPaused THEN m
    ELSE LET elapsed == m.clock - t.startTime
             m1 == [m EXCEPT !.currentPosition = t.startPosition + elapsed,
                             !.transportState.positionSeconds = t.startPosition + elapsed]
             m2 == IF m1.tone
                   THEN [m1 EXCEPT !.transportState.position =
                            FormatPosition(m1.currentPosition, m1.transportState.bpm)]
                   ELSE m1
             m3 == IF m2.currentPosition > m2.duration
                   THEN IF m2.transportState.isLooping
                        THEN [m2 EXCEPT !.currentPosition = 0,
                                        !.transportState.positionSeconds = 0,
                                        !.transportState.position = BBS(0, 0, 0)]
                        ELSE stop(m2)
                   ELSE m2
         IN  _notifyTransportSubscribers(m3,
                 [type |-> "position", position |-> m3.transportState.position,
                  positionSeconds |-> m3.transportState.positionSeconds])

\* The setInterval callback of _startPositionTracking; t is its closure.
tick(m, t) ==
    IF ~m.isPlaying \/ m.isPaused THEN m
    ELSE LET elapsed == m.clock - t.startTime
             m1 == [m EXCEPT !.currentPosition = t.startPosition + elapsed,
                             !.transportState.positionSeconds = t.startPosition + elapsed]
             m2 == IF m1.tone
                   THEN [m1 EXCEPT !.transportState.position =
                            FormatPosition(m1.currentPosition, m1.transportState.bpm)]
                   ELSE m1
             m3 == IF m2.currentPosition >= m2.duration
                   THEN IF m2.transportState.isLooping
                        THEN [m2 EXCEPT !.currentPosition = 0,
                                        !.transportState.positionSeconds = 0,
                                        !.transportState.position = BBS(0, 0, 0),
                                        !.lastWrap = m2.clock]
                        ELSE stop(m2)
                   ELSE m2
         IN  _notifyTransportSubscribers(m3,
                 [type |-> "position", position |-> m3.transportState.position,
                  positionSeconds |-> m3.transportState.positionSeconds])

\* Variant: the callbacks read the frequency of the note when they run.
noteCallbackReadsNote(m, e) ==
    LET frequency == IF e.n \in DOMAIN m.notes THEN m.notes[e.n].frequency
                     ELSE e.frequency
    IN  IF m.isPlaying
        THEN IF e.type = "noteOn"
             THEN _notifySubscribers(
                      [m EXCEPT !.delivered = @ \cup {<<"noteOn", e.n>>},
                                !.synthCalls = Append(@,
                          [call |-> "triggerAttack", frequency |-> frequency,
                           time |-> e.time, velocity |-> e.velocity])],
                      [type |-> "noteOn", note |-> e.note, frequency |-> frequency,
                       time |-> e.time, duration |-> e.duration, velocity |-> e.velocity])
             ELSE _notifySubscribers(
                      [m EXCEPT !.delivered = @ \cup {<<"noteOff", e.n>>},
                                !.synthCalls = Append(@,
                          [call |-> "triggerRelease", frequency |-> frequency,
                           time |-> e.time])],
                      [type |-> "noteOff", note |-> e.note, frequency |-> frequency,
                       time |-> e.time])
        ELSE m

\* Variant: the callbacks do not look at isPlaying.
noteCallbackUnguarded(m, e) ==
    IF e.type = "noteOn"
    THEN _notifySubscribers(
             [m EXCEPT !.delivered = @ \cup {<<"noteOn", e.n>>},
                       !.synthCalls = Append(@,
                           [call |-> "triggerAttack", frequency |-> e.frequency,
                            time |-> e.time, velocity |-> e.velocity])],
             [type |-> "noteOn", note |-> e.note, frequency |-> e.frequency,
              time |-> e.time, duration |-> e.duration, velocity |-> e.velocity])
    ELSE _notifySubscribers(
             [m EXCEPT !.delivered = @ \cup {<<"noteOff", e.n>>},
                       !.synthCalls = Append(@,
                           [call |-> "triggerRelease", frequency |-> e.frequency,
                            time |-> e.time])],
             [type |-> "noteOff", note |-> e.note, frequency |-> e.frequency,
              time |-> e.time])

\* ------------------------------------------------- the scheduled callbacks
\* The note-on and note-off callbacks of play(); e holds what the closure
\* captured.  A callback invoked while the machine is not playing does nothing.
noteCallback(m, e) ==
    IF m.isPlaying
    THEN IF e.type = "noteOn"
         THEN _notifySubscribers(
                  [m EXCEPT !.delivered = @ \cup {<<"noteOn", e.n>>},
                            !.synthCalls = Append(@,
                      [call |-> "triggerAttack", frequency |-> e.frequency,
                       time |-> e.time, velocity |-> e.velocity])],
                  [type |-> "noteOn", note |-> e.note, frequency |-> e.frequency,
                   time |-> e.time, duration |-> e.duration, velocity |-> e.velocity])
         ELSE _notifySubscribers(
                  [m EXCEPT !.delivered = @ \cup {<<"noteOff", e.n>>},
                            !.synthCalls = Append(@,
                      [call |-> "triggerRelease", frequency |-> e.frequency,
                       time |-> e.time])],
                  [type |-> "noteOff", note |-> e.note, frequency |-> e.frequency,
                   time |-> e.time])
    ELSE m

\* ------------------------------------------------------------------ inputs
BpmInputs == {15, 120}

PositionInputs == {Seconds(1), Seconds(5), BadPosition}

LoopInputs == {<<TRUE, Undefined, Undefined>>, <<FALSE, Undefined, Undefined>>}

SwingInputs == {<<-5, "8n">>}

TuningInputs == {"equal"}

SynthTypeInputs == {"default"}

\* ----------------------------------------------------------- specification
\* The field initialiser of transportState
InitialTransportState ==
    [bpm |-> 120, position |-> BBS(0, 0, 0), positionSeconds |-> 0,
     isPlaying |-> FALSE, isPaused |-> FALSE, isLooping |-> FALSE,
     loopStart |-> BBS(0, 0, 0), loopEnd |-> BBS(4, 0, 0),
     swing |-> 0, swingSubdivision |-> "8n"]

Init ==
    /\ tone \in BOOLEAN
    /\ options = [tuningSystem |-> "equal", useSynth |-> TRUE, synthType |-> "default"]
    /\ synth = _initSynth(tone, "default")
    /\ notes = <<>>
    /\ duration = 0
    /\ isPlaying = FALSE
    /\ isPaused = FALSE
    /\ scheduledEvents = <<>>
    /\ currentPosition = 0
    /\ transportState = InitialTransportState
    /\ positionUpdateInterval = 0
    /\ Transport = [state |-> "stopped", bpm |-> 120, timeline |-> {},
                    loop |-> FALSE, loopStart |-> BBS(0, 0, 0), loopEnd |-> BBS(4, 0, 0),
                    swing |-> 0, swingSubdivision |-> "8n"]
    /\ inFlight = {}
    /\ timers = {}
    /\ clock = 0
    /\ noteSubscribers = <<>>
    /\ transportSubscribers = <<>>
    /\ emitted = <<>>
    /\ log = <<>>
    /\ synthCalls = <<>>
    /\ last = [op |-> "new", from |-> "stopped", arg |-> Undefined, pos |-> 0, handles |-> 0]
    /\ delivered = {}
    /\ lastWrap = -1
    /\ held = [ref |-> "none", value |-> InitialTransportState]

\* The step that takes the machine to m: op was called with arg.
Commit(m, op, arg) ==
    /\ tone' = m.tone
    /\ options' = m.options
    /\ synth' = m.synth
    /\ notes' = m.notes
    /\ duration' = m.duration
    /\ isPlaying' = m.isPlaying
    /\ isPaused' = m.isPaused
    /\ scheduledEvents' = m.scheduledEvents
    /\ currentPosition' = m.currentPosition
    /\ transportState' = m.transportState
    /\ positionUpdateInterval' = m.positionUpdateInterval
    /\ Transport' = m.Transport
    /\ inFlight' = m.inFlight
    /\ timers' = m.timers
    /\ clock' = m.clock
    /\ noteSubscribers' = m.noteSubscribers
    /\ transportSubscribers' = m.transportSubscribers
    /\ emitted' = m.emitted
    /\ log' = m.log
    /\ synthCalls' = m.synthCalls
    /\ last' = [op |-> op, from |-> Status(isPlaying, isPaused), arg |-> arg,
                 pos |-> currentPosition, handles |-> Len(scheduledEvents)]
    /\ delivered' = m.delivered
    /\ lastWrap' = IF op \in {"tick", "clock", "dispatch", "fire"} THEN m.lastWrap ELSE -1
    /\ held' = m.held

\* No callback of the scheduler is between being taken off the timeline and
\* being invoked.  The program runs on one thread: while the scheduler works
\* through its due callbacks only what a subscriber calls from inside a
\* notification can run, and the calls the callbacks guard against are stop()
\* and pause().  Every other operation, the timer and the clock wait.
Idle == inFlight = {}

Play ==
    /\ Idle
    /\ Commit(play(Machine), "play", Undefined)

Pause == Commit(pause(Machine), "pause", Undefined)

Stop == Commit(stop(Machine), "stop", Undefined)

SetBPM ==
    /\ Idle
    /\ \E bpm \in BpmInputs : Commit(setBPM(Machine, bpm), "setBPM", Undefined)

SetPosition ==
    /\ Idle
    /\ \E position \in PositionInputs :
        Commit(setPosition(Machine, position), "setPosition", position)

SetLoop ==
    /\ Idle
    /\ \E l \in LoopInputs : Commit(setLoop(Machine, l[1], l[2], l[3]), "setLoop", Undefined)

SetSwing ==
    /\ Idle
    /\ \E sw \in SwingInputs : Commit(setSwing(Machine, sw[1], sw[2]), "setSwing", Undefined)

ParseMIDI ==
    /\ Idle
    /\ \E midi \in MidiSources : Commit(parseMIDI(Machine, midi), "parseMIDI", Undefined)

UpdateTuningSystem ==
    /\ Idle
    /\ \E sys \in TuningInputs :
        Commit(updateTuningSystem(Machine, sys), "updateTuningSystem", Undefined)

UpdateSynthType ==
    /\ Idle
    /\ \E st \in SynthTypeInputs :
        Commit(updateSynthType(Machine, st), "updateSynthType", Undefined)

HandleSynthEnableChange ==
    /\ Idle
    /\ \E b \in BOOLEAN :
        Commit(handleSynthEnableChange(Machine, b), "handleSynthEnableChange", Undefined)

Dispose ==
    /\ Idle
    /\ Commit(dispose(Machine), "dispose", Undefined)

\* A live interval timer fires.
Tick ==
    /\ Idle
    /\ \E t \in timers : Commit(tick(Machine, t), "tick", Undefined)

\* Time passes.
ClockAdvance ==
    /\ Idle
    /\ clock < MaxClock
    /\ Commit([Machine EXCEPT !.clock = @ + 1], "clock", Undefined)

\* The earliest of a set of scheduled callbacks, in timeline order.
Earliest(events) ==
    CHOOSE e \in events :
        \A f \in events : e.time < f.time \/ (e.time = f.time /\ e.id <= f.id)

\* The running scheduler takes the next due callback off its timeline.
Dispatch ==
    /\ Transport.state = "started"
    /\ Cardinality(inFlight) < MaxInFlight
    /\ \E e \in Transport.timeline :
        /\ e.time <= clock
        /\ e = Earliest({f \in Transport.timeline : f.time <= clock})
        /\ Commit([Machine EXCEPT !.Transport.timeline = @ \ {e},
                                  !.inFlight = @ \cup {e}], "dispatch", Undefined)

\* The scheduler invokes a callback it took off the timeline.
Fire ==
    /\ inFlight # {}
    /\ LET e == Earliest(inFlight)
       IN  Commit(noteCallback([Machine EXCEPT !.inFlight = @ \ {e}], e), "fire", Undefined)

Next ==
    \/ Play
    \/ Pause
    \/ Stop
    \/ SetBPM
    \/ SetPosition
    \/ SetLoop
    \/ SetSwing
    \/ ParseMIDI
    \/ UpdateTuningSystem
    \/ UpdateSynthType
    \/ HandleSynthEnableChange
    \/ Dispose
    \/ Tick
    \/ ClockAdvance
    \/ Dispatch
    \/ Fire

Spec == Init /\ [][Next]_vars

\* ------------------------------------------------- the page and its listeners
\* A callback as the argument of the last step
CallbackArg(callback) == [kind |-> callback, a |-> 0, b |-> 0, c |-> 0]

\* The callbacks in an array
Registered(callbacks) == {callbacks[i] : i \in DOMAIN callbacks}

Subscribe ==
    /\ Idle
    /\ Len(noteSubscribers) + Len(transportSubscribers) < MaxSubscribers
    /\ \E callback \in Callbacks \ Registered(noteSubscribers) :
        Commit(subscribe(Machine, callback), "subscribe", CallbackArg(callback))

SubscribeToTransport ==
    /\ Idle
    /\ Len(noteSubscribers) + Len(transportSubscribers) < MaxSubscribers
    /\ \E callback \in Callbacks \ Registered(transportSubscribers) :
        Commit(subscribeToTransport(Machine, callback), "subscribeToTransport",
               CallbackArg(callback))

\* The page calls a function subscribe returned.  Called when the callback is
\* no longer in the array it finds no index and does nothing.
Unsubscribe ==
    /\ Idle
    /\ \E i \in DOMAIN noteSubscribers :
        Commit(unsubscribe(Machine, noteSubscribers[i]), "unsubscribe",
               CallbackArg(noteSubscribers[i]))

UnsubscribeFromTransport ==
    /\ Idle
    /\ \E i \in DOMAIN transportSubscribers :
        Commit(unsubscribeFromTransport(Machine, transportSubscribers[i]),
               "unsubscribeFromTransport", CallbackArg(transportSubscribers[i]))

\* The tempo field of the page, at and around the limits
BpmLimitInputs == {15, 20, 300, 400}

SetBPMAtLimits ==
    /\ Idle
    /\ \E bpm \in BpmLimitInputs :
        Commit(setBPM(Machine, bpm), "setBPM", [kind |-> "bpm", a |-> bpm, b |-> 0, c |-> 0])

\* A session with listeners: the page subscribes and unsubscribes callbacks,
\* loads a file, plays, pauses, stops and disposes.
NextWithSubscribers ==
    \/ Subscribe
    \/ SubscribeToTransport
    \/ Unsubscribe
    \/ UnsubscribeFromTransport
    \/ Play
    \/ Pause
    \/ Stop
    \/ ParseMIDI
    \/ Dispose
    \/ Tick
    \/ ClockAdvance
    \/ Dispatch
    \/ Fire

SpecWithSubscribers == Init /\ [][NextWithSubscribers]_vars

\* A session at the tempo field: the page loads a file, plays, pauses, stops,
\* seeks and sets tempos at and around the limits.
NextAtTempoLimits ==
    \/ SetBPMAtLimits
    \/ Play
    \/ Pause
    \/ Stop
    \/ SetPosition
    \/ ParseMIDI
    \/ Tick
    \/ ClockAdvance
    \/ Dispatch
    \/ Fire

SpecAtTempoLimits == Init /\ [][NextAtTempoLimits]_vars

\* ------------------------------------------------------- the tuning selector
\* Files of one note: names inside the tables, names the pentatonic table
\* lacks, and names of octaves -1 and 9, which no table has; and a file of
\* two tracks, the second starting before the first.
TuningSources ==
    {[duration |-> 1, tracks |-> << <<RawNote(pc, o, 0, 1)>> >>] :
        pc \in {"C", "C#", "F", "A"}, o \in {-1, 4, 8, 9}}
    \cup {[duration |-> 3,
           tracks |-> << <<RawNote("F", 4, 1, 1), RawNote("C", 4, 2, 1)>>,
                         <<RawNote("C#", 4, 0, 1), RawNote("A", 4, 1, 2)>> >>]}

ParseMIDIForTuning ==
    /\ Idle
    /\ \E midi \in TuningSources : Commit(parseMIDI(Machine, midi), "parseMIDI", Undefined)

UpdateTuningSystemToAny ==
    /\ Idle
    /\ \E sys \in TuningSystems :
        Commit(updateTuningSystem(Machine, sys), "updateTuningSystem", Undefined)

\* A session at the tuning selector: the page loads files and changes the
\* tuning system.
NextAtTuningSelector ==
    \/ ParseMIDIForTuning
    \/ UpdateTuningSystemToAny

SpecAtTuningSelector == Init /\ [][NextAtTuningSelector]_vars

\* ------------------------------------------------------ the settings panel
\* Loop requests of the panel: looping on with a start and no end, looping
\* off with an end and no start.  Bounds are whole bars.
LoopBoundInputs ==
    {<<TRUE, BBS(1, 0, 0), Undefined>>,
     <<FALSE, Undefined, BBS(2, 0, 0)>>}

\* The arguments of a setLoop call as the step records them: a is the flag,
\* b and c the bars of start and end, -1 for a bound that is omitted.
LoopArg(enabled, start, end) ==
    [kind |-> "loop", a |-> IF enabled THEN 1 ELSE 0,
     b |-> IF start = Undefined THEN -1 ELSE start.a,
     c |-> IF end = Undefined THEN -1 ELSE end.a]

SetLoopWithBounds ==
    /\ Idle
    /\ \E l \in LoopBoundInputs :
        Commit(setLoop(Machine, l[1], l[2], l[3]), "setLoop", LoopArg(l[1], l[2], l[3]))

\* Swing requests in tenths: below the range, inside it and above it.
SwingLimitInputs == {<<-5, "8n">>, <<5, "8n">>, <<15, "16n">>}

\* The arguments of a setSwing call as the step records them: kind is the
\* subdivision, a the amount.
SwingArg(amount, subdivision) == [kind |-> subdivision, a |-> amount, b |-> 0, c |-> 0]

SetSwingAtLimits ==
    /\ Idle
    /\ \E sw \in SwingLimitInputs :
        Commit(setSwing(Machine, sw[1], sw[2]), "setSwing", SwingArg(sw[1], sw[2]))

\* Tempo requests of the panel: one the machine rejects and one it accepts.
BpmSettingInputs == {15, 90}

SetBPMSetting ==
    /\ Idle
    /\ \E bpm \in BpmSettingInputs :
        Commit(setBPM(Machine, bpm), "setBPM",
               [kind |-> "bpm", a |-> bpm, b |-> 0, c |-> 0])

\* The file of the session: two tracks of one note each.
SettingsSources ==
    {[duration |-> 2,
      tracks |-> << <<RawNote("C", 4, 0, 1)>>, <<RawNote("F", 4, 1, 1)>> >>]}

ParseMIDIForSettings ==
    /\ Idle
    /\ \E midi \in SettingsSources : Commit(parseMIDI(Machine, midi), "parseMIDI", Undefined)

\* A session at the settings panel: tempo, loop and swing are changed while
\* a file is loaded, played, paused and stopped.
NextAtSettings ==
    \/ SetBPMSetting
    \/ SetLoopWithBounds
    \/ SetSwingAtLimits
    \/ Play
    \/ Pause
    \/ Stop
    \/ ParseMIDIForSettings
    \/ Tick
    \/ ClockAdvance
    \/ Dispatch
    \/ Fire

SpecAtSettings == Init /\ [][NextAtSettings]_vars

\* ------------------------------------------------- a reader of the state
GetState ==
    /\ Idle
    /\ Commit([Machine EXCEPT !.held = getState(Machine)], "getState", Undefined)

\* Fields a caller may assign to in the object it holds
HeldFields == {"bpm", "positionSeconds"}

WriteHeld ==
    /\ Idle
    /\ held.ref # "none"
    /\ \E field \in HeldFields :
        Commit(writeHeld(Machine, field, 999), "write", Undefined)

\* A session of a caller that reads the state: it takes the state, assigns
\* to what it got, and goes on using the machine.
NextAtStateReader ==
    \/ GetState
    \/ WriteHeld
    \/ SetBPMSetting
    \/ Play
    \/ Stop
    \/ ParseMIDIForSettings
    \/ Tick
    \/ ClockAdvance
    \/ Dispatch
    \/ Fire

SpecAtStateReader == Init /\ [][NextAtStateReader]_vars

\* ------------------------------------------------- retuning during playback
\* A session in which the tuning system is changed while a file plays.
NextAtRetune ==
    \/ UpdateTuningSystemToAny
    \/ Play
    \/ Pause
    \/ Stop
    \/ ParseMIDIForSettings
    \/ Tick
    \/ ClockAdvance
    \/ Dispatch
    \/ Fire

SpecAtRetune == Init /\ [][NextAtRetune]_vars

\* ------------------------------------------------------ unattended playback
\* The user acts before time starts to pass: loads, sets the loop and the
\* position, plays, pauses, stops, in any order.  From then on only the
\* position timer, the clock and the scheduler act.
UserAtStart ==
    /\ clock = 0
    /\ \/ Play
       \/ Pause
       \/ Stop
       \/ ParseMIDI
       \/ SetLoop
       \/ SetPosition

NextUnattended ==
    \/ UserAtStart
    \/ Tick
    \/ ClockAdvance
    \/ Dispatch
    \/ Fire

\* setInterval invokes the callback of a live timer again and again: time
\* and again no timer is live, or the scheduler is at work, or the callback
\* has just run.  This is the weak fairness of Tick, written with states: a
\* tick that follows a tick with nothing in between changes nothing.
TickFairness == []<>(timers = {} \/ inFlight # {} \/ last.op = "tick")

\* Time passes, and the scheduler invokes every callback it has taken off
\* its timeline.
SpecUnattended ==
    /\ Init
    /\ [][NextUnattended]_vars
    /\ TickFairness
    /\ WF_vars(ClockAdvance)
    /\ WF_vars(Fire)

\* --------------------------------------------- listeners that take leave
\* Callbacks of a client of the API: one that returns and one that
\* unsubscribes itself when it is invoked.
LeavingCallbacks == {"leaver", "sound"}

SubscribeLeaving ==
    /\ Idle
    /\ Len(noteSubscribers) + Len(transportSubscribers) < MaxSubscribers
    /\ \E callback \in LeavingCallbacks \ Registered(noteSubscribers) :
        Commit(subscribe(Machine, callback), "subscribe", CallbackArg(callback))

SubscribeLeavingToTransport ==
    /\ Idle
    /\ Len(noteSubscribers) + Len(transportSubscribers) < MaxSubscribers
    /\ \E callback \in LeavingCallbacks \ Registered(transportSubscribers) :
        Commit(subscribeToTransport(Machine, callback), "subscribeToTransport",
               CallbackArg(callback))

NextWithLeavers ==
    \/ SubscribeLeaving
    \/ SubscribeLeavingToTransport
    \/ Play
    \/ Stop
    \/ ParseMIDIForSettings
    \/ ClockAdvance
    \/ Dispatch
    \/ Fire

SpecWithLeavers == Init /\ [][NextWithLeavers]_vars

\* ================================================================== claims
\* Play can act: Tone.js is loaded and a synthesizer is in use.
CanPlay == tone /\ options.useSynth /\ synth # "null"

\* The callbacks of one kind that are scheduled for note n and not yet invoked.
Pending(type, n) == {e \in Transport.timeline \cup inFlight : e.type = type /\ e.n = n}

\* The notes play() schedules when started at position start.
NotesFrom(start) == {n \in DOMAIN notes : notes[n].time >= start}

StopTransportEvent == [chan |-> "transport", type |-> "stop", position |-> 0]

StopNoteEvent == [chan |-> "note", type |-> "stop"]

\* C1: when stop() has returned, whatever the state it was called in, the
\* array of handles is empty and the scheduler's timeline holds no callback.
C1_StopDrainsHandles ==
    last.op = "stop" => (Len(scheduledEvents) = 0 /\ Transport.timeline = {})

\* stop() has run on a machine that held handles
C1_Witness == last.op = "stop" /\ last.from = "paused" /\ last.handles > 0

\* C2: setPosition(p) called while Playing returns with the machine Playing,
\* positionSeconds = p clamped to [0, duration], and callbacks scheduled for
\* exactly the notes with timeSeconds >= that position.
C2_SeekWhilePlayingReschedulesFromThere ==
    (last.op = "setPosition" /\ last.from = "playing" /\ ParsesAsTime(last.arg))
        => LET clamped == Max(0, Min(ToSeconds(last.arg, Transport.bpm), duration))
           IN  /\ isPlaying
               /\ transportState.positionSeconds = clamped
               /\ {e.n : e \in Transport.timeline} = NotesFrom(clamped)

\* C3: isPlaying and isPaused are never both true, in the machine's fields
\* and in its transport state.
C3_OneStatus ==
    /\ ~(isPlaying /\ isPaused)
    /\ ~(transportState.isPlaying /\ transportState.isPaused)

\* the machine is Paused, after a pause of a playing machine
C3_Witness == isPaused /\ ~isPlaying /\ last.op = "pause" /\ last.from = "playing"

\* C4: every note has at most one note-on callback and at most one note-off
\* callback scheduled and not yet invoked, and no handle is held twice.
C4_OneSchedulePerNote ==
    /\ \A n \in 1..(Len(scheduledEvents) + Len(notes)) :
           /\ Cardinality(Pending("noteOn", n)) <= 1
           /\ Cardinality(Pending("noteOff", n)) <= 1
    /\ \A i, j \in DOMAIN scheduledEvents :
           scheduledEvents[i] = scheduledEvents[j] => i = j

\* play() has resumed a paused machine whose notes are still scheduled
C4_Witness ==
    /\ last.op = "play" /\ last.from = "paused"
    /\ \E n \in DOMAIN notes : Pending("noteOn", n) # {}

\* C5: play() called in Stopped (and able to play) leaves the machine Playing
\* with, for every note at or after the position and for no other note, one
\* note-on at now + (time - position) and one note-off at that plus the
\* note's duration; the array holds the two handles of each such note.
C5_PlaySchedulesFromPosition ==
    (last.op = "play" /\ last.from = "stopped" /\ CanPlay)
        => /\ isPlaying /\ ~isPaused
           /\ {<<e.type, e.n, e.time>> : e \in Transport.timeline}
                = {<<"noteOn", n, clock + (notes[n].time - currentPosition)>> :
                       n \in NotesFrom(currentPosition)}
                  \cup {<<"noteOff", n, clock + (notes[n].time - currentPosition)
                                                + notes[n].duration>> :
                            n \in NotesFrom(currentPosition)}
           /\ Cardinality(Transport.timeline) = 2 * Cardinality(NotesFrom(currentPosition))
           /\ Len(scheduledEvents) = 2 * Cardinality(NotesFrom(currentPosition))
           /\ {scheduledEvents[i] : i \in DOMAIN scheduledEvents}
                = {e.id : e \in Transport.timeline}

\* play() from Stopped, later than clock 0, at a position that leaves a note out
C5_Witness ==
    /\ last.op = "play" /\ last.from = "stopped" /\ CanPlay
    /\ clock > 0
    /\ NotesFrom(currentPosition) # {}
    /\ NotesFrom(currentPosition) # DOMAIN notes

\* C6: pause() and the play() that resumes leave the position where it was,
\* the resume schedules nothing (handles and timeline are unchanged) and
\* makes the machine Playing, and no note whose note-on was delivered has a
\* note-on callback waiting.
C6_ResumeKeepsSession ==
    /\ [][(last'.op = "pause" /\ isPlaying)
            => /\ currentPosition' = currentPosition
               /\ transportState'.positionSeconds = transportState.positionSeconds]_vars
    /\ [][(last'.op = "play" /\ isPaused)
            => /\ isPlaying' /\ ~isPaused'
               /\ currentPosition' = currentPosition
               /\ transportState'.positionSeconds = transportState.positionSeconds
               /\ scheduledEvents' = scheduledEvents
               /\ Transport'.timeline = Transport.timeline
               /\ inFlight' = inFlight]_vars
    /\ [](\A d \in delivered : d[1] = "noteOn" => Pending("noteOn", d[2]) = {})

\* a resume away from position 0, after a note-on was delivered
C6_Witness ==
    /\ last.op = "play" /\ last.from = "paused"
    /\ currentPosition > 0
    /\ \E d \in delivered : d[1] = "noteOn"

\* C7: when stop() has returned the machine is Stopped at position 0 and no
\* position timer is live.
C7_StopResets ==
    last.op = "stop"
        => /\ ~isPlaying /\ ~isPaused
           /\ ~transportState.isPlaying /\ ~transportState.isPaused
           /\ currentPosition = 0
           /\ transportState.positionSeconds = 0
           /\ positionUpdateInterval = 0
           /\ timers = {}

\* stop() has run on a playing machine that had moved on
C7_Witness == last.op = "stop" /\ last.from = "playing" /\ last.pos > 0

\* The fields of the machine and of its collaborators
fields ==
    <<tone, options, synth, notes, duration, isPlaying, isPaused, scheduledEvents,
      currentPosition, transportState, positionUpdateInterval, Transport, inFlight,
      timers, clock, noteSubscribers, transportSubscribers>>

\* C8 (as claimed): stop() called in Stopped changes no field and emits one
\* stop transport event and one stop note event.
C8_StopInStoppedChangesNothing ==
    [][(last'.op = "stop" /\ ~isPlaying /\ ~isPaused)
         => /\ fields' = fields
            /\ emitted' = <<StopTransportEvent, StopNoteEvent>>]_vars

\* C8 (amended): stop() called in Stopped changes nothing but the position,
\* which it sets to 0 ('0:0:0'): called again after a stop(), or in any
\* Stopped state at position 0, it changes no field.  Every call of stop(),
\* in any state, emits one stop transport event and then one stop note event.
C8_StopIdempotent ==
    /\ [][(last'.op = "stop" /\ ~isPlaying /\ ~isPaused)
            => <<tone, options, synth, notes, duration, isPlaying, isPaused,
                 scheduledEvents, positionUpdateInterval, Transport, inFlight,
                 timers, clock>>'
                = <<tone, options, synth, notes, duration, isPlaying, isPaused,
                    scheduledEvents, positionUpdateInterval, Transport, inFlight,
                    timers, clock>>
               /\ transportState' = [transportState EXCEPT !.positionSeconds = 0,
                                                           !.position = BBS(0, 0, 0)]
               /\ currentPosition' = 0]_vars
    /\ [][(last'.op = "stop" /\ last.op = "stop") => fields' = fields]_vars
    /\ [][last'.op = "stop" => emitted' = <<StopTransportEvent, StopNoteEvent>>]_vars

\* stop() called right after stop()
C8_Witness ==
    /\ last.op = "stop" /\ last.from = "stopped" /\ last.pos = 0
    /\ emitted = <<StopTransportEvent, StopNoteEvent>>

\* C9: a note event of type noteOn or noteOff is delivered, and the
\* synthesizer is triggered, only by a callback invoked while the machine is
\* playing; a callback invoked in any other state does nothing.
C9_LateCallbacksDropped ==
    /\ ((\E i \in DOMAIN emitted : emitted[i].type \in {"noteOn", "noteOff"})
          \/ synthCalls # <<>>)
        => (last.op = "fire" /\ last.from = "playing" /\ isPlaying)
    /\ (last.op = "fire" /\ last.from # "playing")
        => (emitted = <<>> /\ synthCalls = <<>>)

\* a callback was invoked after a stop() that came between the scheduler
\* taking it and invoking it
C9_Witness == last.op = "fire" /\ last.from = "stopped"

\* C10: at most one position timer is live; one is live exactly when the
\* machine is Playing, it is the one the machine holds, and a play() that
\* made the machine Playing started it then and there.
C10_OneTickTimer ==
    /\ Cardinality(timers) <= 1
    /\ (timers # {}) <=> isPlaying
    /\ \A t \in timers : t.id = positionUpdateInterval
    /\ (timers = {}) => positionUpdateInterval = 0
    /\ (last.op = "play" /\ last.from # "playing" /\ isPlaying)
        => \A t \in timers : t.startTime = clock /\ t.startPosition = currentPosition

\* a resume started a timer, and the pause before it had left none
C10_Witness ==
    /\ last.op = "play" /\ last.from = "paused"
    /\ Cardinality(timers) = 1
    /\ clock > 0

\* C11: when setPosition(p) has returned (Tone.js loaded, p a time),
\* positionSeconds is p clamped to [0, duration]: a p later than the duration
\* leaves it at the duration.
C11_SetPositionClamps ==
    (last.op = "setPosition" /\ tone /\ ParsesAsTime(last.arg))
        => /\ transportState.positionSeconds
                = Max(0, Min(ToSeconds(last.arg, Transport.bpm), duration))
           /\ transportState.positionSeconds <= duration

\* The events of the last step that went to the transport channel
TransportEvents(events) == {i \in DOMAIN events : events[i].chan = "transport"}

\* C12: pause() called in Playing makes the machine Paused, suspends the
\* scheduler's clock, leaves no position timer, emits one transport event,
\* of type pause, and cancels nothing: the handles, the scheduler's
\* callbacks and the position are what they were.
C12_PauseKeepsSchedule ==
    [][(last'.op = "pause" /\ isPlaying /\ ~isPaused)
         => /\ isPaused' /\ ~isPlaying'
            /\ transportState'.isPaused /\ ~transportState'.isPlaying
            /\ Transport'.state = "paused"
            /\ timers' = {} /\ positionUpdateInterval' = 0
            /\ scheduledEvents' = scheduledEvents
            /\ Transport'.timeline = Transport.timeline
            /\ inFlight' = inFlight
            /\ currentPosition' = currentPosition
            /\ transportState'.positionSeconds = transportState.positionSeconds
            /\ Cardinality(TransportEvents(emitted')) = 1
            /\ \E i \in DOMAIN emitted' :
                   emitted'[i] = [chan |-> "transport", type |-> "pause",
                                  position |-> currentPosition]]_vars

\* pause() has run on a playing machine that had moved on and held handles
C12_Witness ==
    /\ last.op = "pause" /\ last.from = "playing"
    /\ isPaused
    /\ last.handles > 0 /\ Len(scheduledEvents) = last.handles
    /\ Transport.timeline # {}
    /\ currentPosition > 0

\* C13: pause() called in Stopped or in Paused changes no field, schedules
\* and cancels nothing, and emits no event on either channel.
C13_PauseOnlyFromPlaying ==
    [][(last'.op = "pause" /\ ~isPlaying)
         => /\ fields' = fields
            /\ emitted' = <<>>
            /\ log' = <<>>
            /\ synthCalls' = <<>>]_vars

\* pause() has run on a paused machine that holds handles
C13_Witness ==
    /\ last.op = "pause" /\ last.from = "paused"
    /\ isPaused /\ Len(scheduledEvents) > 0
    /\ emitted = <<>>

\* C14: play() called in Playing changes no field (state, position, handles,
\* scheduler, position timer), schedules nothing and emits no event.
C14_PlayWhilePlayingIsNoOp ==
    [][(last'.op = "play" /\ isPlaying)
         => /\ fields' = fields
            /\ emitted' = <<>>
            /\ log' = <<>>
            /\ synthCalls' = <<>>]_vars

\* play() has run on a playing machine that had moved on and held handles
C14_Witness ==
    /\ last.op = "play" /\ last.from = "playing"
    /\ isPlaying
    /\ Len(scheduledEvents) > 0
    /\ currentPosition > 0
    /\ Cardinality(timers) = 1

\* C15: setBPM(bpm) with bpm below 20 or above 300 changes no field and
\* emits no event; with 20 <= bpm <= 300 (the limits included) it sets the
\* state's bpm, and the scheduler's when Tone.js is loaded, and emits one bpm
\* transport event; the state's bpm is within [20, 300] in every state.
C15_SetBPMRejectsOutOfRange ==
    /\ [][(last'.op = "setBPM" /\ (last'.arg.a < 20 \/ last'.arg.a > 300))
            => /\ fields' = fields
               /\ emitted' = <<>>
               /\ log' = <<>>]_vars
    /\ [][(last'.op = "setBPM" /\ last'.arg.a >= 20 /\ last'.arg.a <= 300)
            => /\ transportState' = [transportState EXCEPT !.bpm = last'.arg.a]
               /\ tone => Transport'.bpm = last'.arg.a
               /\ emitted' = <<[chan |-> "transport", type |-> "bpm",
                                bpm |-> last'.arg.a]>>]_vars
    /\ [](transportState.bpm >= 20 /\ transportState.bpm <= 300)

\* setBPM(400) was rejected by a playing machine at 300, the upper limit
C15_Witness ==
    /\ last.op = "setBPM" /\ last.arg.a = 400
    /\ transportState.bpm = 300
    /\ isPlaying

\* The position a tick of timer t computes: where the timer started plus the
\* time since.
TickPosition(t) == t.startPosition + (clock - t.startTime)

\* The events of the last step of type position on the transport channel
PositionEvents(events) ==
    {i \in DOMAIN events : events[i].chan = "transport" /\ events[i].type = "position"}

\* C16: a tick of the position timer while Playing emits one position
\* transport event, carrying the state's position, and
\*  - with the position computed >= duration and looping on, sets the
\*    position to 0 and leaves the machine Playing with its handles;
\*  - with the position computed >= duration and looping off, performs
\*    stop(): Stopped, no handle, nothing on the scheduler, position 0, no timer;
\*  - with the position computed < duration, leaves the machine Playing at
\*    that position.
C16_TickAtEndLoopsOrStops ==
    [][(last'.op = "tick" /\ isPlaying)
         => \A t \in timers :
              /\ Cardinality(PositionEvents(emitted')) = 1
              /\ \A i \in PositionEvents(emitted') :
                     /\ i = Len(emitted')
                     /\ emitted'[i].positionSeconds = transportState'.positionSeconds
                     /\ emitted'[i].position = transportState'.position
              /\ (TickPosition(t) >= duration /\ transportState.isLooping)
                    => /\ isPlaying' /\ ~isPaused'
                       /\ currentPosition' = 0
                       /\ transportState'.positionSeconds = 0
                       /\ scheduledEvents' = scheduledEvents
                       /\ timers' = timers
              /\ (TickPosition(t) >= duration /\ ~transportState.isLooping)
                    => /\ ~isPlaying' /\ ~isPaused'
                       /\ scheduledEvents' = <<>>
                       /\ Transport'.timeline = {}
                       /\ currentPosition' = 0
                       /\ transportState'.positionSeconds = 0
                       /\ timers' = {}
              /\ TickPosition(t) < duration
                    => /\ isPlaying' /\ ~isPaused'
                       /\ currentPosition' = TickPosition(t)
                       /\ transportState'.positionSeconds = TickPosition(t)
                       /\ scheduledEvents' = scheduledEvents]_vars

\* a tick past the end of a looping, playing machine has wrapped to 0
C16_Witness ==
    /\ last.op = "tick" /\ last.from = "playing"
    /\ transportState.isLooping
    /\ isPlaying
    /\ duration > 0
    /\ \E t \in timers : TickPosition(t) >= duration
    /\ currentPosition = 0

\* The callbacks the last step invoked with event ev, in order of invocation
RECURSIVE CallsWith(_, _)
CallsWith(entries, ev) ==
    IF entries = <<>> THEN <<>>
    ELSE IF Head(entries).what = "call" /\ Head(entries).event = ev
         THEN <<Head(entries).callback>> \o CallsWith(Tail(entries), ev)
         ELSE CallsWith(Tail(entries), ev)

\* The subscribers of the channel an event belongs to
SubscribersOf(ev) == IF ev.chan = "note" THEN noteSubscribers ELSE transportSubscribers

\* C17: every event a step emits on a channel is handed to every subscriber
\* registered on that channel, in order, whether or not a subscriber before
\* it threw; every throw is caught and logged; and the operation that emits
\* goes on: stop() ends Stopped with no handle and with both its events emitted.
C17_SubscriberIsolation ==
    /\ [][\A i \in DOMAIN emitted' :
              CallsWith(log', emitted'[i]) = SubscribersOf(emitted'[i])]_vars
    /\ [][\A k \in DOMAIN log' :
              (log'[k].what = "call" /\ Throws(log'[k].callback))
                  => /\ k < Len(log')
                     /\ log'[k + 1] = [log'[k] EXCEPT !.what = "error"]]_vars
    /\ [][last'.op = "stop"
              => /\ ~isPlaying' /\ ~isPaused'
                 /\ scheduledEvents' = <<>>
                 /\ emitted' = <<StopTransportEvent, StopNoteEvent>>]_vars

\* stop() of a playing machine whose first transport subscriber throws: the
\* second was called with the stop event all the same
C17_Witness ==
    /\ last.op = "stop" /\ last.from = "playing"
    /\ transportSubscribers = <<"faulty", "sound">>
    /\ CallsWith(log, StopTransportEvent) = <<"faulty", "sound">>
    /\ ~isPlaying

\* The calls of callbacks the last step made
Calls(entries) == {k \in DOMAIN entries : entries[k].what = "call"}

C19_DisposeTearsDownInOrder ==
    [][last'.op = "dispose"
         => /\ emitted' = <<StopTransportEvent, StopNoteEvent>>
            /\ CallsWith(log', StopTransportEvent) = transportSubscribers
            /\ CallsWith(log', StopNoteEvent) = noteSubscribers
            /\ synth # "null"
                  => /\ log' # <<>>
                     /\ log'[Len(log')] = [what |-> "synth.dispose"]
                     /\ \A k \in 1..(Len(log') - 1) : log'[k].what # "synth.dispose"
            /\ synth = "null" => \A k \in DOMAIN log' : log'[k].what # "synth.dispose"
            /\ ~isPlaying' /\ ~isPaused'
            /\ timers' = {} /\ positionUpdateInterval' = 0
            /\ scheduledEvents' = <<>>
            /\ Transport'.timeline = {}
            /\ synth' = "null"
            /\ noteSubscribers' = <<>>
            /\ transportSubscribers' = <<>>]_vars

\* dispose() of a playing machine with handles and a subscriber on each
\* channel: both were called before the synthesizer was released
C19_Witness ==
    /\ last.op = "dispose" /\ last.from = "playing" /\ last.handles > 0
    /\ CallsWith(log, StopTransportEvent) # <<>>
    /\ CallsWith(log, StopNoteEvent) # <<>>
    /\ log[Len(log)] = [what |-> "synth.dispose"]
    /\ noteSubscribers = <<>> /\ transportSubscribers = <<>>
    /\ timers = {}

\* this.tuningTables
tuningTables == _initTuningTables(tone)

\* C20 (as claimed): the frequency of a note is the entry of its name in the
\* table of the tuning system when there is one; otherwise the entry in the
\* equal table when there is one; otherwise 440 Hz.
C20_LookupOrderEndsAt440 ==
    \A i \in DOMAIN notes :
        LET name == notes[i].name
            system == tuningTables[options.tuningSystem]
        IN  /\ name \in DOMAIN system => notes[i].frequency = system[name]
            /\ (name \notin DOMAIN system /\ name \in DOMAIN tuningTables.equal)
                  => notes[i].frequency = tuningTables.equal[name]
            /\ (name \notin DOMAIN system /\ name \notin DOMAIN tuningTables.equal)
                  => notes[i].frequency = A440

\* C20 (amended): the frequency of a note is the entry of its name in the
\* table of the tuning system when there is one; otherwise the entry in the
\* equal table when there is one (F4 under pentatonic is the equal F4);
\* otherwise, with Tone.js loaded, the equal-tempered frequency Tone.js
\* computes from the name (C9, an octave above the tables, is twice C8);
\* otherwise 440 Hz.
C20_LookupOrder ==
    \A i \in DOMAIN notes :
        LET name == notes[i].name
            system == tuningTables[options.tuningSystem]
        IN  /\ name \in DOMAIN system => notes[i].frequency = system[name]
            /\ (name \notin DOMAIN system /\ name \in DOMAIN tuningTables.equal)
                  => notes[i].frequency = tuningTables.equal[name]
            /\ (name \notin DOMAIN system /\ name \notin DOMAIN tuningTables.equal /\ tone)
                  => notes[i].frequency = Freq(Pow2(name[2] + 1), Pow2(5), Semitone(name[1]))
            /\ (name \notin DOMAIN system /\ name \notin DOMAIN tuningTables.equal /\ ~tone)
                  => notes[i].frequency = A440
            /\ (name = NoteId("F", 4) /\ options.tuningSystem = "pentatonic" /\ tone)
                  => notes[i].frequency = Freq(1, 1, Semitone("F"))
            /\ (name = NoteId("C#", 4) /\ options.tuningSystem = "natural" /\ tone)
                  => notes[i].frequency = Freq(16, 15, 0)

\* F4 is loaded under pentatonic, which has no F: it has the equal F4
C20_Witness ==
    /\ tone
    /\ options.tuningSystem = "pentatonic"
    /\ Len(notes) = 1
    /\ notes[1].name = NoteId("F", 4)
    /\ notes[1].frequency = tuningTables.equal[NoteId("F", 4)]

\* C21: the frequency resolved for a note, whatever its name (octaves -1 and
\* 9, which no table has, included), whatever the tuning system, and whether
\* or not the tables were populated, is a positive number.
C21_FrequencyIsPositive ==
    \A i \in DOMAIN notes :
        /\ notes[i].frequency.num >= 1
        /\ notes[i].frequency.den >= 1

\* without Tone.js no table is populated: C#9 under natural resolved to 440 Hz
C21_Witness ==
    /\ ~tone
    /\ options.tuningSystem = "natural"
    /\ Len(notes) = 1
    /\ notes[1].name = NoteId("C#", 9)
    /\ notes[1].frequency = A440

\* C22: after a load the notes are in ascending order of time, notes of
\* equal time in the order of their tracks, and every note of every track is
\* among them.
C22_LoadSortsByTime ==
    last.op = "parseMIDI"
        => /\ \A i, j \in DOMAIN notes :
                  i < j => /\ notes[i].time <= notes[j].time
                           /\ notes[i].time = notes[j].time
                                 => notes[i].trackIndex <= notes[j].trackIndex
           /\ \A src \in TuningSources :
                  duration = src.duration
                      => Len(notes) = Len(FlatMap(src.tracks))

\* C23: when a load has returned, whatever the state it was called in, the
\* machine is Stopped at position 0, holds no handle, has nothing on the
\* scheduler and no position timer.
C23_LoadResetsTransport ==
    last.op = "parseMIDI"
        => /\ ~isPlaying /\ ~isPaused
           /\ ~transportState.isPlaying /\ ~transportState.isPaused
           /\ transportState.positionSeconds = 0
           /\ scheduledEvents = <<>>
           /\ Transport.timeline = {}
           /\ timers = {}

\* C24: a retune gives every note the frequency the lookup yields for its
\* name under the new system and changes no other field of any note, nor
\* their number, their order or the duration; a second retune to the same
\* system changes no note.
C24_RetuneChangesFrequenciesOnly ==
    [][last'.op = "updateTuningSystem"
          => /\ Len(notes') = Len(notes)
             /\ \A i \in DOMAIN notes :
                    notes'[i] = [notes[i] EXCEPT !.frequency =
                                    getNoteFrequency(tuningTables, options'.tuningSystem,
                                                     tone, notes[i].name)]
             /\ duration' = duration
             /\ (last.op = "updateTuningSystem"
                 /\ options'.tuningSystem = options.tuningSystem) => notes' = notes]_vars

\* a file of four notes retuned from equal temperament to the Pythagorean
\* ratios: the order of the load stands and the frequencies are the table's
C24_Witness ==
    /\ last.op = "updateTuningSystem"
    /\ tone
    /\ options.tuningSystem = "pythagorean"
    /\ Len(notes) = 4
    /\ notes[1].name = NoteId("F", 4) /\ notes[1].time = 1
    /\ notes[1].frequency = getNoteFrequency(tuningTables, "pythagorean", tone, NoteId("F", 4))
    /\ notes[1].frequency # getNoteFrequency(tuningTables, "equal", tone, NoteId("F", 4))

\* C25: setPosition with a position Tone.Time cannot convert returns
\* normally, changes no field (position, positionSeconds, play state, handles
\* and timeline among them) and emits no event.
C25_InvalidPositionIsNoOp ==
    [][(last'.op = "setPosition" /\ ~ParsesAsTime(last'.arg))
          => /\ fields' = fields
             /\ emitted' = <<>>
             /\ log' = <<>>]_vars

\* an invalid position was given to a playing machine with Tone.js loaded
\* and callbacks on the timeline; it plays on
C25_Witness ==
    /\ last.op = "setPosition" /\ last.arg = BadPosition
    /\ tone /\ isPlaying /\ last.from = "playing"
    /\ scheduledEvents # <<>>
    /\ Transport.timeline # {}

\* The setSwing call of the last step had an amount outside [0, 1].
BadSwingAmount(arg) == arg.a < 0 \/ arg.a > 10

\* The fields of the machine a setting does not own
playbackFields ==
    <<tone, options, synth, notes, duration, isPlaying, isPaused, scheduledEvents,
      currentPosition, positionUpdateInterval, inFlight, timers, clock,
      noteSubscribers, transportSubscribers,
      transportState.isPlaying, transportState.isPaused,
      transportState.position, transportState.positionSeconds,
      Transport.state, Transport.timeline>>

\* C26 (as claimed): setSwing with an amount outside [0, 1] leaves the
\* state's swing and swingSubdivision as they were and emits no event.
C26_BadSwingIsRejected ==
    [][(last'.op = "setSwing" /\ BadSwingAmount(last'.arg))
          => /\ transportState'.swing = transportState.swing
             /\ transportState'.swingSubdivision = transportState.swingSubdivision
             /\ emitted' = <<>>]_vars

\* C26 (amended): setSwing with an amount outside [0, 1] is not refused: the
\* state's swing becomes the nearer limit, 0 for an amount below and 1 for
\* an amount above, the subdivision given is stored, one transport event
\* carrying both is emitted, no error is logged and nothing else changes.
C26_BadSwingIsClamped ==
    [][(last'.op = "setSwing" /\ BadSwingAmount(last'.arg))
          => /\ transportState' =
                    [transportState EXCEPT
                        !.swing = IF last'.arg.a < 0 THEN 0 ELSE 10,
                        !.swingSubdivision = last'.arg.kind]
             /\ emitted' = <<[chan |-> "transport", type |-> "bpm",
                              swing |-> IF last'.arg.a < 0 THEN 0 ELSE 10,
                              subdivision |-> last'.arg.kind]>>
             /\ log' = <<>>
             /\ playbackFields' = playbackFields]_vars

\* setSwing(1.5, "16n") on a playing machine: the state holds 1 and "16n"
C26_Witness ==
    /\ last.op = "setSwing" /\ last.arg = SwingArg(15, "16n")
    /\ isPlaying
    /\ transportState.swing = 10
    /\ transportState.swingSubdivision = "16n"
    /\ emitted # <<>>

\* C27: in every state the position is within [0, duration], in the
\* transport state and in the field it is copied from.
C27_PositionWithinDuration ==
    /\ transportState.positionSeconds >= 0
    /\ transportState.positionSeconds <= duration
    /\ currentPosition >= 0
    /\ currentPosition <= duration

\* a load of a shorter file found the position beyond the new duration and
\* put it back to 0
C27_Witness ==
    /\ last.op = "parseMIDI"
    /\ last.pos > duration
    /\ transportState.positionSeconds = 0

\* C28: getState() hands out the content of the transport state at the time
\* of the call and leaves the machine alone; an assignment to the object it
\* returned changes no field of the machine, so a later getState() returns
\* the state as the machine has it; and what a caller reads in an object it
\* holds is changed by no operation of the machine.
C28_GetStateReturnsCopy ==
    /\ [][last'.op = "getState"
            => /\ Deref(held', transportState') = transportState
               /\ fields' = fields]_vars
    /\ [][last'.op = "write"
            => /\ fields' = fields
               /\ Deref(getState(Machine)', transportState') = transportState]_vars
    /\ [][last'.op \notin {"getState", "write"}
            => Deref(held', transportState') = Deref(held, transportState)]_vars

\* the caller holds a state taken while Stopped at 120 bpm and has set its
\* bpm to 999; the machine, since then set to 90 bpm, is playing
C28_Witness ==
    /\ held.ref # "none"
    /\ Deref(held, transportState).bpm = 999
    /\ ~Deref(held, transportState).isPlaying
    /\ transportState.bpm = 90
    /\ transportState.isPlaying

\* A bound of a setLoop call as the step recorded it, given what the state
\* held before: the bound itself, or the one held when it was omitted.
BoundAfter(bars, before) == IF bars = -1 THEN before ELSE BBS(bars, 0, 0)

\* C29: setBPM, setLoop and setSwing leave the status, the position, the
\* position timer, the handles and the timeline of the scheduler as they
\* were, in Stopped, Playing and Paused.  setBPM changes at most the bpm;
\* setLoop changes the loop flag and the bounds it was given and keeps a
\* bound that was omitted; setSwing changes at most swing and subdivision.
C29_SettersDoNotReschedule ==
    /\ [][last'.op \in {"setBPM", "setLoop", "setSwing"}
            => playbackFields' = playbackFields]_vars
    /\ [][last'.op = "setBPM"
            => /\ [transportState' EXCEPT !.bpm = 0] = [transportState EXCEPT !.bpm = 0]
               /\ [Transport' EXCEPT !.bpm = 0] = [Transport EXCEPT !.bpm = 0]]_vars
    /\ [][last'.op = "setLoop"
            => /\ transportState' =
                      [transportState EXCEPT
                          !.isLooping = (last'.arg.a = 1),
                          !.loopStart = BoundAfter(last'.arg.b, @),
                          !.loopEnd = BoundAfter(last'.arg.c, @)]
               /\ Transport'.bpm = Transport.bpm
               /\ Transport'.swing = Transport.swing
               /\ Transport'.swingSubdivision = Transport.swingSubdivision]_vars
    /\ [][last'.op = "setSwing"
            => /\ [transportState' EXCEPT !.swing = 0, !.swingSubdivision = "8n"]
                    = [transportState EXCEPT !.swing = 0, !.swingSubdivision = "8n"]
               /\ [Transport' EXCEPT !.swing = 0, !.swingSubdivision = "8n"]
                    = [Transport EXCEPT !.swing = 0, !.swingSubdivision = "8n"]]_vars

\* setLoop(false, undefined, "2:0:0") on a machine playing past the start,
\* with handles outstanding and its timer live: the start set earlier stands
C29_Witness ==
    /\ last.op = "setLoop" /\ last.arg = LoopArg(FALSE, Undefined, BBS(2, 0, 0))
    /\ last.from = "playing" /\ isPlaying
    /\ transportState.positionSeconds > 0
    /\ scheduledEvents # <<>>
    /\ timers # {}
    /\ ~transportState.isLooping
    /\ transportState.loopStart = BBS(1, 0, 0)
    /\ transportState.loopEnd = BBS(2, 0, 0)

\* C30: setSwing(amount, subdivision) stores 0 for an amount below 0, 1 for
\* an amount above 1 and the amount otherwise, and stores the subdivision,
\* in the state and, with Tone.js loaded, in the scheduler; the state's
\* swing is within [0, 1] in every state.  Amounts are in tenths.
C30_SwingIsClamped ==
    /\ [][last'.op = "setSwing"
            => /\ transportState'.swing =
                      (IF last'.arg.a < 0 THEN 0
                       ELSE IF last'.arg.a > 10 THEN 10 ELSE last'.arg.a)
               /\ transportState'.swingSubdivision = last'.arg.kind
               /\ tone => /\ Transport'.swing = transportState'.swing
                          /\ Transport'.swingSubdivision = last'.arg.kind]_vars
    /\ [](transportState.swing \in 0..10)

\* setSwing(-0.5, "8n") on a paused machine with Tone.js loaded: 0 and "8n"
\* are stored
C30_Witness ==
    /\ last.op = "setSwing" /\ last.arg = SwingArg(-5, "8n")
    /\ last.from = "paused"
    /\ transportState.swing = 0
    /\ transportState.swingSubdivision = "8n"
    /\ Transport.swing = 0
    /\ tone

\* C31: updateTuningSystem called while Playing or Paused leaves status,
\* position, position timer, handles and the callbacks on the scheduler as
\* they were; a callback invoked afterwards hands to the synthesizer and to
\* the subscribers the frequency its closure captured when it was scheduled.
C31_RetuneDoesNotInterrupt ==
    /\ [][(last'.op = "updateTuningSystem" /\ (isPlaying \/ isPaused))
            => /\ isPlaying' = isPlaying /\ isPaused' = isPaused
               /\ transportState' = transportState
               /\ currentPosition' = currentPosition
               /\ timers' = timers
               /\ positionUpdateInterval' = positionUpdateInterval
               /\ scheduledEvents' = scheduledEvents
               /\ Transport' = Transport
               /\ inFlight' = inFlight]_vars
    /\ [][(last'.op = "fire" /\ isPlaying)
            => /\ Len(synthCalls') = 1
               /\ synthCalls'[1].frequency = Earliest(inFlight).frequency
               /\ Len(emitted') = 1
               /\ emitted'[1].frequency = Earliest(inFlight).frequency]_vars

\* a note-on was delivered with the frequency it was scheduled with, after
\* a retune during playback gave the note another one
C31_Witness ==
    /\ last.op = "fire"
    /\ isPlaying
    /\ Len(emitted) = 1
    /\ emitted[1].type = "noteOn"
    /\ \E n \in DOMAIN notes :
           /\ notes[n].name = emitted[1].note
           /\ notes[n].frequency # emitted[1].frequency

\* a (num / den) is twice b (num / den), both without a fractional power
Twice(a, b) == a.semis = 0 /\ b.semis = 0 /\ a.num * b.den = 2 * b.num * a.den

\* a is b times 2^k, k >= 0
TimesPow2(a, b, k) == a.semis = 0 /\ b.semis = 0 /\ a.num * b.den = Pow2(k) * b.num * a.den

\* C32: with the libraries loaded, the natural and the Pythagorean table
\* hold all twelve pitch classes of octaves 0..8 and nothing else, the
\* pentatonic table holds C, D, E, G, A of octaves 0..8 and nothing else;
\* the entries of octave 4 are the base times the ratio of the pitch class
\* (pentatonic: 1, 9/8, 5/4, 3/2, 5/3), an entry of octave o is the one of
\* octave 0 times 2^o, and an entry of octave o + 1 is twice the entry of
\* the same pitch class in octave o.
C32_TablesHoldRatiosByOctave ==
    tone =>
        /\ DOMAIN tuningTables.natural = PitchClassSet \X (0..8)
        /\ DOMAIN tuningTables.pythagorean = PitchClassSet \X (0..8)
        /\ DOMAIN tuningTables.pentatonic = {"C", "D", "E", "G", "A"} \X (0..8)
        /\ \A pc \in PitchClassSet :
               /\ tuningTables.natural[<<pc, 4>>] =
                      Freq(naturalRatios[pc][1], naturalRatios[pc][2], 0)
               /\ tuningTables.pythagorean[<<pc, 4>>] =
                      Freq(pythagoreanRatios[pc][1], pythagoreanRatios[pc][2], 0)
        /\ tuningTables.pentatonic[<<"C", 4>>] = Freq(1, 1, 0)
        /\ tuningTables.pentatonic[<<"D", 4>>] = Freq(9, 8, 0)
        /\ tuningTables.pentatonic[<<"E", 4>>] = Freq(5, 4, 0)
        /\ tuningTables.pentatonic[<<"G", 4>>] = Freq(3, 2, 0)
        /\ tuningTables.pentatonic[<<"A", 4>>] = Freq(5, 3, 0)
        /\ \A sys \in {"natural", "pythagorean", "pentatonic"} :
               \A id \in DOMAIN tuningTables[sys] :
                   /\ TimesPow2(tuningTables[sys][id], tuningTables[sys][<<id[1], 0>>], id[2])
                   /\ id[2] < 8 => Twice(tuningTables[sys][<<id[1], id[2] + 1>>],
                                         tuningTables[sys][id])

\* A8 was loaded under the pentatonic system and has the entry of the
\* table: the base times 5/3 times 2^4
C32_Witness ==
    /\ tone
    /\ options.tuningSystem = "pentatonic"
    /\ Len(notes) = 1
    /\ notes[1].name = NoteId("A", 8)
    /\ notes[1].frequency = tuningTables.pentatonic[NoteId("A", 8)]
    /\ notes[1].frequency = Freq(80, 3, 0)

\* C33: a machine that is Playing with looping disabled, once the user has
\* left, eventually is Stopped with no handle outstanding; with looping
\* enabled a tick leaves the status as it was.
C33_PlaybackTerminates ==
    /\ (clock > 0 /\ isPlaying /\ ~transportState.isLooping)
           ~> (~isPlaying /\ ~isPaused /\ scheduledEvents = <<>>)
    /\ [][(last'.op = "tick" /\ transportState.isLooping)
            => (isPlaying' = isPlaying /\ isPaused' = isPaused)]_vars

\* the tick that found the position at the end stopped an unattended machine
C33_Witness ==
    /\ last.op = "tick" /\ last.from = "playing"
    /\ clock > 0
    /\ ~transportState.isLooping
    /\ ~isPlaying /\ ~isPaused
    /\ scheduledEvents = <<>>
    /\ timers = {}

\* C34: between the scheduling of the notes and the next stop, the
\* note-off of a note is delivered only after its note-on was, and a
\* callback that delivers an event delivers one not yet delivered.
C34_NoteOnBeforeNoteOff ==
    /\ [](\A d \in delivered : d[1] = "noteOff" => <<"noteOn", d[2]>> \in delivered)
    /\ [][(last'.op = "fire" /\ emitted' # <<>>)
            => <<Earliest(inFlight).type, Earliest(inFlight).n>> \notin delivered]_vars

\* C35: whenever the machine is Stopped no handle is held, and a play()
\* called in Stopped started from none: the handles after it are those of
\* the notes it scheduled, two a note.
C35_StoppedHoldsNoHandles ==
    /\ []((~isPlaying /\ ~isPaused) => scheduledEvents = <<>>)
    /\ [][(last'.op = "play" /\ ~isPlaying /\ ~isPaused /\ isPlaying')
            => /\ scheduledEvents = <<>>
               /\ Len(scheduledEvents') = 2 * Len(FilterFrom(notes, 1, currentPosition))]_vars

\* play() in Stopped, after time has passed, scheduled the two notes of the
\* file and holds their four handles and no other
C35_Witness ==
    /\ last.op = "play" /\ last.from = "stopped" /\ last.handles = 0
    /\ clock > 0
    /\ isPlaying
    /\ Len(notes) = 2
    /\ Len(scheduledEvents) = 4

\* Event i of a step is the first the step emitted on its channel, so the
\* array of the channel was, when its notification began, as before the step.
FirstOnChannel(events, i) == \A j \in 1..(i - 1) : events[j].chan # events[i].chan

\* C36: an event is handed exactly once to every callback that was in the
\* array of its channel when the notification began, also when a callback
\* unsubscribes during the notification.
C36_DeliveredToAllDespiteUnsubscribe ==
    [][\A i \in DOMAIN emitted' :
           FirstOnChannel(emitted', i)
               => \A c \in Registered(SubscribersOf(emitted'[i])) :
                      Cardinality({k \in Calls(log') :
                                      /\ log'[k].event = emitted'[i]
                                      /\ log'[k].callback = c}) = 1]_vars

\* C37: when a step hands a note event of type stop to the subscribers the
\* machine is not Playing.  (setPosition on a playing machine is left out:
\* there the event is emitted by stop() and play() follows in the same step.)
C37_StopNoteEventOnlyWhenNotPlaying ==
    [][(last'.op # "setPosition"
        /\ \E i \in DOMAIN emitted' : emitted'[i] = StopNoteEvent)
          => ~isPlaying']_vars

\* C38: while a looping machine plays on after a tick put the position back
\* to 0, a later tick sets the position to the time that has passed since
\* that wrap, as long as this is less than the duration.
C38_TicksMeasureFromWrap ==
    [][(last'.op = "tick" /\ isPlaying /\ ~isPaused /\ transportState.isLooping
        /\ lastWrap >= 0 /\ clock - lastWrap < duration)
          => /\ currentPosition' = clock - lastWrap
             /\ transportState'.positionSeconds = clock - lastWrap]_vars

\* C39: the copies inside transportState never differ from the fields they
\* duplicate: isPlaying, isPaused and the position in seconds.
C39_DuplicatedFieldsAgree ==
    /\ transportState.isPlaying = isPlaying
    /\ transportState.isPaused = isPaused
    /\ transportState.positionSeconds = currentPosition

\* A paused machine whose position a tick had moved off 0: all three pairs
\* have been written, and away from their initial values.
C39_Witness ==
    /\ isPaused /\ transportState.isPaused
    /\ currentPosition > 0 /\ transportState.positionSeconds = currentPosition
    /\ last.op = "pause"

\* C40: a transport event of type bpm is handed out only by a setBPM call,
\* and it carries the tempo that getState() reports after the call.
C40_BpmEventOnlyFromSetBPM ==
    [][\A i \in DOMAIN emitted' :
          (emitted'[i].chan = "transport" /\ emitted'[i].type = "bpm")
            => /\ last'.op = "setBPM"
               /\ "bpm" \in DOMAIN emitted'[i]
               /\ emitted'[i].bpm = getState(Machine)'.value.bpm]_vars

====
